---------------------------- MODULE Spec2Model ----------------------------
(***************************************************************************)
(* GoSNare: Supernote .note/.mark to vector PDF converter.                 *)
(*                                                                         *)
(* The module models the parts of the program, each as a state machine     *)
(* over its own frame of variables:                                        *)
(*   dec  - one call of decodeRLE (rle.go), the RATTA_RLE state machine,   *)
(*          with its sink (a recording callback or decodeRLEToCodeMap);    *)
(*   blk  - one call of parseMetadataBlock (the notebook parser);          *)
(*   cv   - one call of ConvertNoteToPDFVector / writeOnePageVectorPDF     *)
(*          (vector.go): page rendering tasks, object-id allocation,       *)
(*          placeholder resolution and the PDF writer;                     *)
(*   nb   - one call of ParseNotebook with parseLinks;                     *)
(*   pal  - one call of BuildPalette (rle.go);                             *)
(*   dir  - one call of processDirectory (main.go) with its goroutines;    *)
(*   lay  - the layers of one page from renderContentColorLayers and       *)
(*          renderBGLayerRGB to the paint order of the content stream;     *)
(*   plk  - one pathLocker (watcher.go) and its callers;                   *)
(*   wat  - the daemon of watch mode (watcher.go) for one source file;     *)
(*   db   - one debouncer (watcher.go) during a burst of triggers;         *)
(*   sd   - runWatchMode (watcher.go) from "Daemon ready" to its return;   *)
(*   fl   - one call of fillCodes, fillRGB or fillRGBA (rle.go);           *)
(*   idp  - the identity palette and its readers (rle.go);                 *)
(*   mk   - one call of ConvertMarkToPDFVector;                            *)
(*   scn  - initialScan (watcher.go).                                      *)
(* Go slices are 0-indexed; the sequences below are 1-indexed, so the      *)
(* element data[i] of the source is data[i + 1] here.                      *)
(***************************************************************************)
EXTENDS Integers, Sequences, FiniteSets, TLC

VARIABLES dec, blk, cv, nb, pal, dir, lay, plk, wat, db, sd, fl, idp, mk, scn

vars == <<dec, blk, cv, nb, pal, dir, lay, plk, wat, db, sd, fl, idp, mk, scn>>

\* The frames a step of one part leaves alone.
OtherThanDec == <<blk, cv, nb, pal, dir, lay, plk, wat, db, sd, fl, idp, mk, scn>>
OtherThanBlk == <<dec, cv, nb, pal, dir, lay, plk, wat, db, sd, fl, idp, mk, scn>>
OtherThanCv == <<dec, blk, nb, pal, dir, lay, plk, wat, db, sd, fl, idp, mk, scn>>
OtherThanNb == <<dec, blk, cv, pal, dir, lay, plk, wat, db, sd, fl, idp, mk, scn>>
OtherThanPal == <<dec, blk, cv, nb, dir, lay, plk, wat, db, sd, fl, idp, mk, scn>>
OtherThanDir == <<dec, blk, cv, nb, pal, lay, plk, wat, db, sd, fl, idp, mk, scn>>
OtherThanLay == <<dec, blk, cv, nb, pal, dir, plk, wat, db, sd, fl, idp, mk, scn>>
OtherThanPlk == <<dec, blk, cv, nb, pal, dir, lay, wat, db, sd, fl, idp, mk, scn>>
OtherThanWat == <<dec, blk, cv, nb, pal, dir, lay, plk, db, sd, fl, idp, mk, scn>>
OtherThanDb == <<dec, blk, cv, nb, pal, dir, lay, plk, wat, sd, fl, idp, mk, scn>>
OtherThanSd == <<dec, blk, cv, nb, pal, dir, lay, plk, wat, db, fl, idp, mk, scn>>
OtherThanFl == <<dec, blk, cv, nb, pal, dir, lay, plk, wat, db, sd, idp, mk, scn>>
OtherThanIdp == <<dec, blk, cv, nb, pal, dir, lay, plk, wat, db, sd, fl, mk, scn>>
OtherThanMk == <<dec, blk, cv, nb, pal, dir, lay, plk, wat, db, sd, fl, idp, scn>>
OtherThanScn == <<dec, blk, cv, nb, pal, dir, lay, plk, wat, db, sd, fl, idp, mk>>

Min(a, b) == IF a < b THEN a ELSE b

RECURSIVE SumLen(_)
SumLen(s) == IF s = <<>> THEN 0 ELSE s[1].length + SumLen(Tail(s))

(***************************************************************************)
(* Bounded sequences over a set.                                           *)
(***************************************************************************)
BSeq(S, n) == UNION {[1..k -> S] : k \in 0..n}

(***************************************************************************)
(*                         rle.go : decodeRLE                              *)
(***************************************************************************)

\* The transparent sentinel colour code (rle.go:125,145,156).
Transparent == 98

\* lengthCode 0xff: fixed maximum run (rle.go:131-132).
MaxRunCode == 255
MaxRunLength == 16384

\* Value the code map is pre-filled with (vector.go:67).
Background == 255

\* Bound: number of (colorCode, lengthCode) pairs in an input stream.
MaxPairs == 2

\* Colour codes of the input streams: black 0x00, pen black 0x61, transparent 0x62.
RLEColors == {0, 97, Transparent}

\* Length codes of the input streams: short runs, two hold codes, the 0xff code.
RLELengths == {1, 3, 5, 128, 129, MaxRunCode}

\* Raster sizes <<width, height>> decoded with the recording callback.
RecordRasters == {<<10, 1>>, <<13, 10>>, <<24, 16>>, <<128, 128>>}

\* Raster sizes decoded into a code map (decodeRLEToCodeMap).
CodeRasters == {<<10, 1>>, <<4, 3>>}

RECURSIVE Flatten(_)
Flatten(ps) == IF ps = <<>> THEN <<>> ELSE <<ps[1][1], ps[1][2]>> \o Flatten(Tail(ps))

\* Input byte streams: up to MaxPairs pairs, optionally one trailing unpaired byte.
RLEStreams ==
  LET paired == {Flatten(ps) : ps \in BSeq(RLEColors \X RLELengths, MaxPairs)}
  IN  paired \cup {d \o <<c>> : d \in paired, c \in {0}}

\* Faulty variant of HeldLen: the "+ 1" on the held count is lost.
HeldLen_NoPlusOne(prevLength) == (prevLength % 128) * 128

\* Faulty variant of HeldLen: the high bit of the held count is not masked.
HeldLen_Unmasked(prevLength) == (prevLength + 1) * 128

\* (int(prevLength&0x7f) + 1) << 7
HeldLen(prevLength) == ((prevLength % 128) + 1) * 128

\* Faulty variant of MergedLen: the new pair's own length is lost.
MergedLen_DropsNew(lengthCode, prevLength) == ((prevLength % 128) + 1) * 128

\* 1 + int(lengthCode) + ((int(prevLength&0x7f) + 1) << 7)
MergedLen(lengthCode, prevLength) == 1 + lengthCode + ((prevLength % 128) + 1) * 128

\* Faulty variant of Clamp: the length is left as it is.
Clamp_None(pos, length, expected) == length

\* if pos+length > expected { length = expected - pos }
Clamp(pos, length, expected) ==
  IF pos + length > expected THEN expected - pos ELSE length

\* copy(buf[pos+filled:end], buf[pos:pos+filled]): Go copies
\* min(len(dst), len(src)) elements, as memmove does.
CopyWithin(buf, dstFrom, dstTo, srcFrom, srcTo) ==
  LET n == Min(dstTo - dstFrom, srcTo - srcFrom)
  IN  [k \in 1..Len(buf) |->
         IF k - 1 >= dstFrom /\ k - 1 < dstFrom + n
         THEN buf[srcFrom + (k - 1 - dstFrom) + 1]
         ELSE buf[k]]

RECURSIVE FillDouble(_, _, _, _)
FillDouble(buf, pos, end, filled) ==
  IF filled < end - pos
  THEN FillDouble(CopyWithin(buf, pos + filled, end, pos, pos + filled),
                  pos, end, filled * 2)
  ELSE buf

\* Faulty variant of fillCodes: the fill runs to the end of the buffer.
fillCodes_PastRun(buf, pos, count, code) ==
  IF pos >= Len(buf) THEN buf
  ELSE FillDouble([buf EXCEPT ![pos + 1] = code], pos, Len(buf), 1)

\* fillCodes: write the code once, then double the filled prefix.
fillCodes(buf, pos, count, code) ==
  LET end == Min(pos + count, Len(buf))
  IN  IF pos >= end THEN buf
      ELSE FillDouble([buf EXCEPT ![pos + 1] = code], pos, end, 1)

\* The emit callback: the recording callback notes the call; the code-map
\* sink (decodeRLEToCodeMap) also fills the buffer.
Emit(d, pos, length, colorCode) ==
  [d EXCEPT
     !.emits = Append(@, [pos |-> pos, length |-> length, colorCode |-> colorCode]),
     !.codeMap = IF d.sink = "codes" THEN fillCodes(@, pos, length, colorCode) ELSE @]

\* A decoded run (history): every run the decoder accounts for, emitted or not.
NoteRun(d, pos, length, colorCode) ==
  [d EXCEPT
     !.runs = Append(@, [pos |-> pos, length |-> length, colorCode |-> colorCode])]

\* Faulty variant of EmitUnlessTransparent: transparent runs are emitted too.
EmitUnlessTransparent_Always(d, pos, length, colorCode) ==
  Emit(NoteRun(d, pos, length, colorCode), pos, length, colorCode)

\* if colorCode != 0x62 { emit(pos, length, colorCode) }
EmitUnlessTransparent(d, pos, length, colorCode) ==
  IF colorCode # Transparent
  THEN Emit(NoteRun(d, pos, length, colorCode), pos, length, colorCode)
  ELSE NoteRun(d, pos, length, colorCode)

\* The frame of decodeRLE on entry to its loop (rle.go:100-106).
DecFrame(data, width, height, sink) ==
  [data |-> data, width |-> width, height |-> height, sink |-> sink,
   codeMap |-> IF sink = "codes" THEN [k \in 1..(width * height) |-> Background]
               ELSE <<>>,
   expected |-> width * height, pos |-> 0, i |-> 0,
   hasHolder |-> FALSE, heldColor |-> 0, heldLength |-> 0,
   emits |-> <<>>, runs |-> <<>>, pc |-> "loop"]

DecIdle == DecFrame(<<>>, 0, 0, "record")

\* for i+1 < len(data) && pos < expected
DecLoopGuard(d) == d.i + 1 < Len(d.data) /\ d.pos < d.expected

\* Faulty variant of DecEmitRun: the run is one pixel short.
DecEmitRun_OneShort(d, length, colorCode) ==
  LET len == Clamp(d.pos, length - 1, d.expected)
      e   == EmitUnlessTransparent(d, d.pos, len, colorCode)
  IN  [e EXCEPT !.pos = d.pos + len]

\* The tail of one loop iteration (rle.go:141-148).
DecEmitRun(d, length, colorCode) ==
  LET len == Clamp(d.pos, length, d.expected)
      e   == EmitUnlessTransparent(d, d.pos, len, colorCode)
  IN  [e EXCEPT !.pos = d.pos + len]

\* Faulty variant of DecIterate: the length code 0x80 is not taken for a
\* hold.
DecIterate_NoHoldAt128(d) ==
  LET colorCode  == d.data[d.i + 1]
      lengthCode == d.data[d.i + 2]
      d1 == [d EXCEPT !.i = d.i + 2]
  IN  IF d.hasHolder
      THEN LET prevColor  == d.heldColor
               prevLength == d.heldLength
               d2 == [d1 EXCEPT !.hasHolder = FALSE]
           IN  IF colorCode = prevColor
               THEN DecEmitRun(d2, MergedLen(lengthCode, prevLength), colorCode)
               ELSE LET heldLen == Clamp(d2.pos, HeldLen(prevLength), d2.expected)
                        d3 == EmitUnlessTransparent(d2, d2.pos, heldLen, prevColor)
                        d4 == [d3 EXCEPT !.pos = d2.pos + heldLen]
                    IN  DecEmitRun(d4, lengthCode + 1, colorCode)
      ELSE IF lengthCode = MaxRunCode
      THEN DecEmitRun(d1, MaxRunLength, colorCode)
      ELSE IF lengthCode > 128
      THEN [d1 EXCEPT !.heldColor = colorCode, !.heldLength = lengthCode,
                      !.hasHolder = TRUE]
      ELSE DecEmitRun(d1, lengthCode + 1, colorCode)

\* One iteration of the decode loop (rle.go:107-149).
DecIterate(d) ==
  LET colorCode  == d.data[d.i + 1]
      lengthCode == d.data[d.i + 2]
      d1 == [d EXCEPT !.i = d.i + 2]
  IN  IF d.hasHolder
      THEN LET prevColor  == d.heldColor
               prevLength == d.heldLength
               d2 == [d1 EXCEPT !.hasHolder = FALSE]
           IN  IF colorCode = prevColor
               THEN DecEmitRun(d2, MergedLen(lengthCode, prevLength), colorCode)
               ELSE LET heldLen == Clamp(d2.pos, HeldLen(prevLength), d2.expected)
                        d3 == EmitUnlessTransparent(d2, d2.pos, heldLen, prevColor)
                        d4 == [d3 EXCEPT !.pos = d2.pos + heldLen]
                    IN  DecEmitRun(d4, lengthCode + 1, colorCode)
      ELSE IF lengthCode = MaxRunCode
      THEN DecEmitRun(d1, MaxRunLength, colorCode)
      ELSE IF lengthCode >= 128
      THEN [d1 EXCEPT !.heldColor = colorCode, !.heldLength = lengthCode,
                      !.hasHolder = TRUE]
      ELSE DecEmitRun(d1, lengthCode + 1, colorCode)

\* After the loop (rle.go:151-159): flush a pending hold.
DecFlushTail(d) ==
  IF d.hasHolder /\ d.pos < d.expected
  THEN LET tailLen == Min(HeldLen(d.heldLength), d.expected - d.pos)
       IN  IF tailLen > 0
           THEN EmitUnlessTransparent(d, d.pos, tailLen, d.heldColor)
           ELSE d
  ELSE d

DecodeLoop ==
  /\ dec.pc = "loop"
  /\ DecLoopGuard(dec)
  /\ dec' = DecIterate(dec)
  /\ UNCHANGED OtherThanDec

DecodeTail ==
  /\ dec.pc = "loop"
  /\ ~DecLoopGuard(dec)
  /\ dec' = [DecFlushTail(dec) EXCEPT !.pc = "done"]
  /\ UNCHANGED OtherThanDec

(***************************************************************************)
(* Reference reading of the RATTA_RLE format, written from the format's    *)
(* rules without clamping: the number of pixels a stream encodes, and how  *)
(* many of them are transparent.  k is the 0-based index of the next pair. *)
(***************************************************************************)
RECURSIVE EncodedPixels(_, _, _, _, _, _)
EncodedPixels(data, k, held, hc, hl, onlyTransparent) ==
  LET count(c, n) == IF onlyTransparent /\ c # 98 THEN 0 ELSE n
  IN  IF k + 1 >= Len(data)
      THEN IF held THEN count(hc, ((hl % 128) + 1) * 128) ELSE 0
      ELSE LET c == data[k + 1]
               l == data[k + 2]
           IN  IF held
               THEN IF c = hc
                    THEN count(c, 1 + l + ((hl % 128) + 1) * 128)
                         + EncodedPixels(data, k + 2, FALSE, 0, 0, onlyTransparent)
                    ELSE count(hc, ((hl % 128) + 1) * 128) + count(c, l + 1)
                         + EncodedPixels(data, k + 2, FALSE, 0, 0, onlyTransparent)
               ELSE IF l = 255
               THEN count(c, 16384)
                    + EncodedPixels(data, k + 2, FALSE, 0, 0, onlyTransparent)
               ELSE IF l >= 128
               THEN EncodedPixels(data, k + 2, TRUE, c, l, onlyTransparent)
               ELSE count(c, l + 1)
                    + EncodedPixels(data, k + 2, FALSE, 0, 0, onlyTransparent)

EncodedTotal(data) == EncodedPixels(data, 0, FALSE, 0, 0, FALSE)
EncodedTransparent(data) == EncodedPixels(data, 0, FALSE, 0, 0, TRUE)

\* The runs start at 0 and each starts where the previous one ended.
Consecutive(runs) ==
  /\ \A k \in 1..Len(runs) : runs[k].length > 0
  /\ runs # <<>> => runs[1].pos = 0
  /\ \A k \in 1..(Len(runs) - 1) : runs[k + 1].pos = runs[k].pos + runs[k].length

IsOpaque(r) == r.colorCode # 98

\* The pixel position after the last decoded run.
DecodedEnd(d) ==
  IF d.runs = <<>> THEN 0
  ELSE d.runs[Len(d.runs)].pos + d.runs[Len(d.runs)].length

Run(pos, length, colorCode) ==
  [pos |-> pos, length |-> length, colorCode |-> colorCode]

\* C5: for a stream whose encoded run lengths total exactly width*height, the
\* decoded runs are consecutive from position 0, cover exactly width*height
\* pixels, the emitted runs are exactly the non-transparent ones, and the emitted
\* lengths sum to width*height minus the transparent pixels.
C5_ExactStreamCoversRaster ==
  (dec.pc = "done" /\ EncodedTotal(dec.data) = dec.expected) =>
    /\ Consecutive(dec.runs)
    /\ SumLen(dec.runs) = dec.expected
    /\ dec.emits = SelectSeq(dec.runs, IsOpaque)
    /\ SumLen(dec.emits) = dec.expected - EncodedTransparent(dec.data)

\* C5 witness: an exact stream with a held run, a transparent run and an emitted run.
C5_Witness ==
  /\ dec.pc = "done"
  /\ EncodedTotal(dec.data) = dec.expected
  /\ EncodedTransparent(dec.data) > 0
  /\ Len(dec.runs) = 2
  /\ dec.runs[1].length >= 128
  /\ Len(dec.emits) = 1

\* A loop iteration that resolves a held pair with a pair of the same colour.
MergeStep ==
  /\ dec.pc = "loop"
  /\ DecLoopGuard(dec)
  /\ dec.hasHolder
  /\ dec.data[dec.i + 1] = dec.heldColor

\* The run a merge decodes: position, clamped length, colour.
MergedRun ==
  Run(dec.pos,
      Min(1 + dec.data[dec.i + 2] + (((dec.heldLength % 128) + 1) * 128),
          dec.expected - dec.pos),
      dec.heldColor)

\* C6 as stated: a held pair followed by a pair of the same colour emits exactly
\* one run, of the merged length (clamped), and leaves the decoder idle.
C6_MergeEmitsOneRun ==
  [][MergeStep => /\ dec'.emits = Append(dec.emits, MergedRun)
                  /\ ~dec'.hasHolder]_vars

\* C6 amended: as stated when the colour is not the transparent code 0x62; for
\* the transparent code nothing is emitted.  In both cases the position advances
\* by the merged (clamped) length and the decoder is idle afterwards.
C6_MergeEmitsOneOpaqueRun ==
  [][MergeStep =>
       /\ dec'.emits = IF dec.heldColor # 98 THEN Append(dec.emits, MergedRun)
                       ELSE dec.emits
       /\ dec'.pos = dec.pos + MergedRun.length
       /\ ~dec'.hasHolder]_vars

\* C6 witness: a merge whose run was emitted unclamped, with the second length
\* code having its high bit set, and the decoder idle afterwards.
C6_Witness ==
  /\ Len(dec.data) >= 4
  /\ dec.i = 4
  /\ dec.data[1] = dec.data[3]
  /\ dec.data[1] # 98
  /\ dec.data[2] = 129
  /\ dec.data[4] = 128
  /\ ~dec.hasHolder
  /\ dec.emits = <<Run(0, 1 + 128 + 256, dec.data[1])>>

\* The step after the loop, taken with a pair still held and pixels missing.
TailStep ==
  /\ dec.pc = "loop"
  /\ ~DecLoopGuard(dec)
  /\ dec.hasHolder
  /\ dec.pos < dec.expected

TailRun ==
  Run(dec.pos,
      Min(((dec.heldLength % 128) + 1) * 128, dec.expected - dec.pos),
      dec.heldColor)

\* C7 as stated: at end of input with a pair held and the raster not full,
\* exactly one tail run is emitted for the held colour at the current position.
C7_TailEmitsOneRun ==
  [][TailStep => dec'.emits = Append(dec.emits, TailRun)]_vars

\* C7 amended: as stated when the held colour is not the transparent code 0x62;
\* a held transparent pair emits nothing.
C7_TailEmitsOneOpaqueRun ==
  [][TailStep =>
       dec'.emits = IF dec.heldColor # 98 THEN Append(dec.emits, TailRun)
                    ELSE dec.emits]_vars

\* C7 witness: a stream of a single held pair, flushed unclamped at position 0.
C7_Witness ==
  /\ dec.pc = "done"
  /\ Len(dec.data) = 2
  /\ dec.data[2] = 129
  /\ dec.data[1] # 98
  /\ dec.expected > 256
  /\ dec.emits = <<Run(0, 256, dec.data[1])>>

\* C8: when the input is exhausted early, decoding ends normally, the trailing
\* unpaired byte is never consumed, and every pixel from the end of the last
\* decoded run on still holds the value the code map was pre-filled with; the
\* stream [0x00,0x05] over a 10x1 map emits one run (0, 6, 0), positions 6..9
\* staying 0xFF.
C8_ShortInputKeepsBackground ==
  (dec.pc = "done" /\ dec.sink = "codes") =>
    /\ Len(dec.codeMap) = dec.expected
    /\ dec.i <= 2 * (Len(dec.data) \div 2)
    /\ \A p \in DecodedEnd(dec)..(dec.expected - 1) : dec.codeMap[p + 1] = 255
    /\ (dec.data \in {<<0, 5>>, <<0, 5, 0>>} /\ dec.width = 10 /\ dec.height = 1) =>
         /\ dec.emits = <<Run(0, 6, 0)>>
         /\ dec.codeMap = <<0, 0, 0, 0, 0, 0, 255, 255, 255, 255>>

\* C8 witness: the example stream decoded into a 10x1 code map.
C8_Witness ==
  /\ dec.pc = "done"
  /\ dec.sink = "codes"
  /\ dec.data = <<0, 5>>
  /\ dec.width = 10
  /\ DecodedEnd(dec) = 6
  /\ dec.codeMap[7] = 255

(***************************************************************************)
(*                 notebook parser : parseMetadataBlock                    *)
(***************************************************************************)

\* Bound: length in bytes of a metadata block drawn from all byte strings.
MaxBlockLen == 6

\* Bound: number of records in a metadata block built from records.
MaxRecords == 3

\* The bytes of the blocks drawn from all byte strings.
BlockBytes == {"<", ">", ":", "K"}

\* Keys (no '<', '>', ':') and values (no '>') of the well-formed records.
RecordKeys == {<<>>, <<"K">>, <<"K", "V">>}
RecordValues == {<<"V">>, <<"<", ":">>}

\* Malformed records: no ':' before the next '<' or '>' or the end of the block.
MalformedRecords == {<<"<">>, <<"<", "K">>, <<"<", "K", ">">>}

\* The items a block is built from: <KEY:VALUE> records and malformed records.
BlockItems ==
  [kind : {"record"}, key : RecordKeys, value : RecordValues, bytes : {<<>>}]
    \cup [kind : {"malformed"}, key : {<<>>}, value : {<<>>}, bytes : MalformedRecords]

\* The bytes of one item: "<" KEY ":" VALUE ">" for a record.
ItemBytes(it) ==
  IF it.kind = "record" THEN <<"<">> \o it.key \o <<":">> \o it.value \o <<">">>
  ELSE it.bytes

RECURSIVE Serialize(_)
Serialize(items) ==
  IF items = <<>> THEN <<>> ELSE ItemBytes(items[1]) \o Serialize(Tail(items))

\* Item sequences whose records have distinct keys.
DistinctKeys(items) ==
  \A a, b \in 1..Len(items) :
    (a # b /\ items[a].kind = "record" /\ items[b].kind = "record")
      => items[a].key # items[b].key

\* A Go slice index expression: in range, or a run-time panic.
InRange(buf, j) == j >= 0 /\ j < Len(buf)

\* map assignment result[key] = value
MapPut(m, key, value) ==
  [k \in DOMAIN m \cup {key} |-> IF k = key THEN value ELSE m[k]]

EmptyMap == [k \in {} |-> <<>>]

\* Faulty variant of ScanColon: the scan does not stop at '<' or '>'.
RECURSIVE ScanColon_NoStop(_, _)
ScanColon_NoStop(buf, j) ==
  IF ~(j < Len(buf)) THEN -1
  ELSE IF ~InRange(buf, j) THEN -2
  ELSE IF buf[j + 1] = ":" THEN j
  ELSE ScanColon_NoStop(buf, j + 1)

\* Find ':' separator (lines 128-137): the index of the ':' found, -1 when a
\* '<' or '>' or the end of the block comes first, -2 for an index out of range.
RECURSIVE ScanColon(_, _)
ScanColon(buf, j) ==
  IF ~(j < Len(buf)) THEN -1
  ELSE IF ~InRange(buf, j) THEN -2
  ELSE IF buf[j + 1] = ":" THEN j
  ELSE IF buf[j + 1] = ">" \/ buf[j + 1] = "<" THEN -1
  ELSE ScanColon(buf, j + 1)

\* Find closing '>' (lines 145-151): its index, -1 when there is none.
RECURSIVE ScanClose(_, _)
ScanClose(buf, j) ==
  IF ~(j < Len(buf)) THEN -1
  ELSE IF ~InRange(buf, j) THEN -2
  ELSE IF buf[j + 1] = ">" THEN j
  ELSE ScanClose(buf, j + 1)

\* The slice expression buf[from:to].
Slice(buf, from, to) == SubSeq(buf, from + 1, to)

\* Faulty variant of ValueSlice: the value starts at the ':'.
ValueSlice_FromColon(buf, colonIdx, closeIdx) == Slice(buf, colonIdx, closeIdx)

\* value := string(buf[colonIdx+1 : closeIdx])
ValueSlice(buf, colonIdx, closeIdx) == Slice(buf, colonIdx + 1, closeIdx)

\* for i < len(buf)
BlkLoopGuard(b) == b.i < Len(b.buf)

\* One iteration of the scan loop (lines 119-159).
BlkIterate(b) ==
  IF ~InRange(b.buf, b.i) THEN [b EXCEPT !.pc = "panic"]
  ELSE IF b.buf[b.i + 1] # "<" THEN [b EXCEPT !.i = b.i + 1]
  ELSE LET i1 == b.i + 1
           colonIdx == ScanColon(b.buf, i1)
       IN  IF colonIdx = -2 THEN [b EXCEPT !.pc = "panic"]
           ELSE IF colonIdx < 0 THEN [b EXCEPT !.i = i1]
           ELSE LET key == Slice(b.buf, i1, colonIdx)
                    closeIdx == ScanClose(b.buf, colonIdx + 1)
                IN  IF closeIdx = -2 THEN [b EXCEPT !.pc = "panic"]
                    ELSE IF closeIdx < 0 THEN [b EXCEPT !.i = i1, !.pc = "done"]
                    ELSE [b EXCEPT
                            !.result = MapPut(@, key,
                                              ValueSlice(b.buf, colonIdx, closeIdx)),
                            !.i = closeIdx + 1]

\* The frame of parseMetadataBlock on entry.
BlkFrame(addr, readable, block, items, input) ==
  [addr |-> addr, readable |-> readable, block |-> block, items |-> items,
   input |-> input, buf |-> <<>>, i |-> 0, result |-> EmptyMap, pc |-> "open"]

BlkIdle == BlkFrame(0, FALSE, <<>>, <<>>, "none")

\* Lines 100-118: the zero address, the seek and the two reads.
ParseOpen ==
  /\ blk.pc = "open"
  /\ blk' = IF blk.addr = 0 THEN [blk EXCEPT !.pc = "done"]
            ELSE IF ~blk.readable THEN [blk EXCEPT !.pc = "error"]
            ELSE [blk EXCEPT !.buf = blk.block, !.pc = "scan"]
  /\ UNCHANGED OtherThanBlk

ParseScan ==
  /\ blk.pc = "scan"
  /\ BlkLoopGuard(blk)
  /\ blk' = BlkIterate(blk)
  /\ UNCHANGED OtherThanBlk

\* return result, nil (line 160)
ParseReturn ==
  /\ blk.pc = "scan"
  /\ ~BlkLoopGuard(blk)
  /\ blk' = [blk EXCEPT !.pc = "done"]
  /\ UNCHANGED OtherThanBlk

(***************************************************************************)
(*        vector.go : buildVectorPageChunk, pdfWriter, the converters      *)
(*                                                                         *)
(* Byte strings are sequences of one-byte strings.  Real numbers are       *)
(* fixed-point integers in units of 1/10000 (points, colour fractions).    *)
(***************************************************************************)

\* Device geometry (NomadWidth, NomadHeight, NomadPPI).
NomadWidth == 1404
NomadHeight == 1872
NomadPPI == 300

\* Points per inch, and the fixed-point unit.
PointsPerInch == 72
Unit == 10000

\* BuildPalette(cfg.Note.ColorConfig, 0.2): the marker alpha byte(0.2 * 255).
MarkerAlpha == 51
Opaque == 255

\* First object id of the page chunks (nextObjID := 3; objStart 3).
FirstChunkID == 3

\* Bound: pages of the notebooks explored with every page content and mode.
MaxPages == 2

\* Bound: pages of the long notebooks (sequential mode, uniform pages).
LongPages == 11

\* Bound: runtime.GOMAXPROCS(0), the capacity of the page-task semaphore.
GoMaxProcs == 2

Abs(v) == IF v < 0 THEN -v ELSE v

Digits == <<"0", "1", "2", "3", "4", "5", "6", "7", "8", "9">>

\* %d
RECURSIVE Dec(_)
Dec(n) ==
  IF n < 0 THEN <<"-">> \o Dec(-n)
  ELSE IF n < 10 THEN <<Digits[n + 1]>>
  ELSE Dec(n \div 10) \o <<Digits[(n % 10) + 1]>>

RECURSIVE PadZero(_, _)
PadZero(s, w) == IF Len(s) >= w THEN s ELSE PadZero(<<"0">> \o s, w)

\* %010d
Dec10(n) == PadZero(Dec(n), 10)

\* The number a string of decimal digits denotes.
RECURSIVE DecValue(_)
DecValue(s) ==
  IF s = <<>> THEN 0
  ELSE LET d == CHOOSE k \in 0..9 : Digits[k + 1] = s[Len(s)]
       IN  DecValue(SubSeq(s, 1, Len(s) - 1)) * 10 + d

\* appendFloat4 / %.4f of a fixed-point value.
Float4(v) ==
  (IF v < 0 THEN <<"-">> ELSE <<>>)
    \o Dec(Abs(v) \div Unit) \o <<".">> \o PadZero(Dec(Abs(v) % Unit), 4)

\* appendFloat2 / %.2f of a fixed-point value: rounded to hundredths.
Float2(v) ==
  LET h == (Abs(v) + 50) \div 100
  IN  (IF v < 0 THEN <<"-">> ELSE <<>>)
        \o Dec(h \div 100) \o <<".">> \o PadZero(Dec(h % 100), 2)

\* float64(b)/255.0 rounded to four decimals.
Frac255(b) == (2 * b * Unit + 255) \div (2 * 255)

\* s occurs in data at 1-based position k.
MatchAt(data, s, k) ==
  k >= 1 /\ k + Len(s) - 1 <= Len(data) /\ SubSeq(data, k, k + Len(s) - 1) = s

Contains(data, s) == \E k \in 1..Len(data) : MatchAt(data, s, k)

\* bytes.ReplaceAll: the non-overlapping occurrences of old, left to right.
RECURSIVE ReplaceFrom(_, _, _, _)
ReplaceFrom(data, old, new, from) ==
  LET hits == {k \in from..Len(data) : MatchAt(data, old, k)}
  IN  IF hits = {} THEN SubSeq(data, from, Len(data))
      ELSE LET k == CHOOSE x \in hits : \A y \in hits : x <= y
           IN  SubSeq(data, from, k - 1) \o new
                 \o ReplaceFrom(data, old, new, k + Len(old))

ReplaceAll(data, old, new) == ReplaceFrom(data, old, new, 1)

\*  0 obj\n
sObj ==
  <<" ", "0", " ", "o", "b", "j", "\n">>

\*  0 R
sRef ==
  <<" ", "0", " ", "R">>

\* PAGEOBJ_
sPlaceholder ==
  <<"P", "A", "G", "E", "O", "B", "J", "_">>

\* 1 0 obj\n<< /Type /Catalog /Pages 2 0 R >>\nendobj\n
sCatalog ==
  <<"1", " ", "0", " ", "o", "b", "j", "\n", "<", "<", " ", "/", "T", "y",
    "p", "e", " ", "/", "C", "a", "t", "a", "l", "o", "g", " ", "/", "P",
    "a", "g", "e", "s", " ", "2", " ", "0", " ", "R", " ", ">", ">", "\n",
    "e", "n", "d", "o", "b", "j", "\n">>

\* 2 0 obj\n<< /Type /Pages /Kids [ 
sPagesHead ==
  <<"2", " ", "0", " ", "o", "b", "j", "\n", "<", "<", " ", "/", "T", "y",
    "p", "e", " ", "/", "P", "a", "g", "e", "s", " ", "/", "K", "i", "d",
    "s", " ", "[", " ">>

\*  ] /Count 
sPagesCount ==
  <<" ", "]", " ", "/", "C", "o", "u", "n", "t", " ">>

\*  >>\nendobj\n
sDictEnd ==
  <<" ", ">", ">", "\n", "e", "n", "d", "o", "b", "j", "\n">>

\* q\n
sBgOpen ==
  <<"q", "\n">>

\*  0 0 
sBgMid ==
  <<" ", "0", " ", "0", " ">>

\*  0 0 cm\n/Im1 Do\nQ\n
sBgDraw ==
  <<" ", "0", " ", "0", " ", "c", "m", "\n", "/", "I", "m", "1", " ", "D",
    "o", "\n", "Q", "\n">>

\*  gs\n
sGs ==
  <<" ", "g", "s", "\n">>

\*  rg\n
sRg ==
  <<" ", "r", "g", "\n">>

\* f*\nQ\n
sFill ==
  <<"f", "*", "\n", "Q", "\n">>

\*  m\n
sMove ==
  <<" ", "m", "\n">>

\*  l\n
sLine ==
  <<" ", "l", "\n">>

\*  c\n
sCurve ==
  <<" ", "c", "\n">>

\* h\n
sClose ==
  <<"h", "\n">>

\* /GS
sGsName ==
  <<"/", "G", "S">>

\* \n   /Annots [\n
sAnnotsOpen ==
  <<"\n", " ", " ", " ", "/", "A", "n", "n", "o", "t", "s", " ", "[", "\n">>

\*      << /Type /Annot /Subtype /Link /Rect [
sAnnotRect ==
  <<" ", " ", " ", " ", " ", "<", "<", " ", "/", "T", "y", "p", "e", " ",
    "/", "A", "n", "n", "o", "t", " ", "/", "S", "u", "b", "t", "y", "p",
    "e", " ", "/", "L", "i", "n", "k", " ", "/", "R", "e", "c", "t", " ",
    "[">>

\* ] /Border [0 0 0] /A << /S /GoTo /D [
sAnnotDest ==
  <<"]", " ", "/", "B", "o", "r", "d", "e", "r", " ", "[", "0", " ", "0",
    " ", "0", "]", " ", "/", "A", " ", "<", "<", " ", "/", "S", " ", "/",
    "G", "o", "T", "o", " ", "/", "D", " ", "[">>

\*  /Fit] >> >>\n
sAnnotEnd ==
  <<" ", "/", "F", "i", "t", "]", " ", ">", ">", " ", ">", ">", "\n">>

\*    ]
sAnnotsClose ==
  <<" ", " ", " ", "]">>

\* << 
sResOpen ==
  <<"<", "<", " ">>

\* /XObject << /Im1 
sXObject ==
  <<"/", "X", "O", "b", "j", "e", "c", "t", " ", "<", "<", " ", "/", "I",
    "m", "1", " ">>

\*  0 R >> 
sRefClose ==
  <<" ", "0", " ", "R", " ", ">", ">", " ">>

\* /ExtGState << 
sExtGState ==
  <<"/", "E", "x", "t", "G", "S", "t", "a", "t", "e", " ", "<", "<", " ">>

\*  0 R 
sRefSp ==
  <<" ", "0", " ", "R", " ">>

\* >> 
sDictClose ==
  <<">", ">", " ">>

\* >>
sResClose ==
  <<">", ">">>

\*  0 obj\n<< /Type /Page\n   /Parent 2 0 R\n   /MediaBox [0 0 
sPageHead ==
  <<" ", "0", " ", "o", "b", "j", "\n", "<", "<", " ", "/", "T", "y", "p",
    "e", " ", "/", "P", "a", "g", "e", "\n", " ", " ", " ", "/", "P", "a",
    "r", "e", "n", "t", " ", "2", " ", "0", " ", "R", "\n", " ", " ", " ",
    "/", "M", "e", "d", "i", "a", "B", "o", "x", " ", "[", "0", " ", "0",
    " ">>

\* ]\n   /Contents 
sPageContents ==
  <<"]", "\n", " ", " ", " ", "/", "C", "o", "n", "t", "e", "n", "t", "s",
    " ">>

\*  0 R\n   /Resources 
sPageResources ==
  <<" ", "0", " ", "R", "\n", " ", " ", " ", "/", "R", "e", "s", "o", "u",
    "r", "c", "e", "s", " ">>

\* \n>>\nendobj\n
sPageEnd ==
  <<"\n", ">", ">", "\n", "e", "n", "d", "o", "b", "j", "\n">>

\*  0 obj\n<< /Length 
sLength ==
  <<" ", "0", " ", "o", "b", "j", "\n", "<", "<", " ", "/", "L", "e", "n",
    "g", "t", "h", " ">>

\*  >>\nstream\n
sStream ==
  <<" ", ">", ">", "\n", "s", "t", "r", "e", "a", "m", "\n">>

\* endstream\nendobj\n
sEndStream ==
  <<"e", "n", "d", "s", "t", "r", "e", "a", "m", "\n", "e", "n", "d", "o",
    "b", "j", "\n">>

\*  0 obj\n<< /Type /ExtGState /ca 
sGsObj ==
  <<" ", "0", " ", "o", "b", "j", "\n", "<", "<", " ", "/", "T", "y", "p",
    "e", " ", "/", "E", "x", "t", "G", "S", "t", "a", "t", "e", " ", "/",
    "c", "a", " ">>

\*  0 obj\n<< /Type /XObject\n   /Subtype /Image\n   /Width 
sImageHead ==
  <<" ", "0", " ", "o", "b", "j", "\n", "<", "<", " ", "/", "T", "y", "p",
    "e", " ", "/", "X", "O", "b", "j", "e", "c", "t", "\n", " ", " ", " ",
    "/", "S", "u", "b", "t", "y", "p", "e", " ", "/", "I", "m", "a", "g",
    "e", "\n", " ", " ", " ", "/", "W", "i", "d", "t", "h", " ">>

\* \n   /Height 
sImageHeight ==
  <<"\n", " ", " ", " ", "/", "H", "e", "i", "g", "h", "t", " ">>

\* \n   /ColorSpace /DeviceRGB\n   /BitsPerComponent 8\n   /Filter /FlateDecode\n   /Length 
sImageSpace ==
  <<"\n", " ", " ", " ", "/", "C", "o", "l", "o", "r", "S", "p", "a", "c",
    "e", " ", "/", "D", "e", "v", "i", "c", "e", "R", "G", "B", "\n", " ",
    " ", " ", "/", "B", "i", "t", "s", "P", "e", "r", "C", "o", "m", "p",
    "o", "n", "e", "n", "t", " ", "8", "\n", " ", " ", " ", "/", "F", "i",
    "l", "t", "e", "r", " ", "/", "F", "l", "a", "t", "e", "D", "e", "c",
    "o", "d", "e", "\n", " ", " ", " ", "/", "L", "e", "n", "g", "t", "h",
    " ">>

\* \nendstream\nendobj\n
sImageEnd ==
  <<"\n", "e", "n", "d", "s", "t", "r", "e", "a", "m", "\n", "e", "n", "d",
    "o", "b", "j", "\n">>

\* xref\n
sXref ==
  <<"x", "r", "e", "f", "\n">>

\* 0000000000 65535 f \n
sXrefFree ==
  <<"0", "0", "0", "0", "0", "0", "0", "0", "0", "0", " ", "6", "5", "5",
    "3", "5", " ", "f", " ", "\n">>

\*  00000 n \n
sXrefInUse ==
  <<" ", "0", "0", "0", "0", "0", " ", "n", " ", "\n">>

\* trailer\n
sTrailer ==
  <<"t", "r", "a", "i", "l", "e", "r", "\n">>

\* << /Size 
sSize ==
  <<"<", "<", " ", "/", "S", "i", "z", "e", " ">>

\*  /Root 1 0 R >>\n
sRoot ==
  <<" ", "/", "R", "o", "o", "t", " ", "1", " ", "0", " ", "R", " ", ">",
    ">", "\n">>

\* startxref\n
sStartxref ==
  <<"s", "t", "a", "r", "t", "x", "r", "e", "f", "\n">>

\* %%EOF\n
sEOF ==
  <<"%", "%", "E", "O", "F", "\n">>

\* /D [
sFitDest ==
  <<"/", "D", " ", "[">>

\*  /Fit]
sFit ==
  <<" ", "/", "F", "i", "t", "]">>

\* %PDF-1.7\n%<e2><e3><cf><d3>\n
sHeader ==
  <<"%", "P", "D", "F", "-", "1", ".", "7", "\n", "%", "0xE2", "0xE3", "0xCF",
    "0xD3", "\n">>

\* fmt.Appendf(nil, "PAGEOBJ_%d", destPage)
Placeholder(destPage) == sPlaceholder \o Dec(destPage)

\* fmt.Appendf(nil, "%d 0 R", destObjID)
Reference(destObjID) == Dec(destObjID) \o sRef

\* appendPDFSubpath: one traced path as PDF subpath operators.  A point is
\* <<x, y>> in pixels; sx, sy and pageHeightPt are fixed-point.
PointOps(pnt, sx, sy, pageHeightPt) ==
  Float4(pnt[1] * sx) \o <<" ">> \o Float4(pageHeightPt - pnt[2] * sy)

RECURSIVE SegmentOps(_, _, _, _)
SegmentOps(c, sx, sy, pageHeightPt) ==
  IF c = <<>> THEN <<>>
  ELSE LET seg == c[1]
           ops == IF seg.type = "bezier"
                  THEN PointOps(seg.pnt[1], sx, sy, pageHeightPt) \o <<" ">>
                         \o PointOps(seg.pnt[2], sx, sy, pageHeightPt) \o <<" ">>
                         \o PointOps(seg.pnt[3], sx, sy, pageHeightPt) \o sCurve
                  ELSE PointOps(seg.pnt[2], sx, sy, pageHeightPt) \o sLine
                         \o PointOps(seg.pnt[3], sx, sy, pageHeightPt) \o sLine
       IN  ops \o SegmentOps(Tail(c), sx, sy, pageHeightPt)

appendPDFSubpath(p, sx, sy, pageHeightPt) ==
  LET c == p.curve
  IN  IF Len(c) = 0 THEN <<>>
      ELSE PointOps(c[Len(c)].pnt[3], sx, sy, pageHeightPt) \o sMove
             \o SegmentOps(c, sx, sy, pageHeightPt) \o sClose

\* appendPDFSubpathTree: the path, then each child, depth first.
RECURSIVE appendPDFSubpathTree(_, _, _, _)
RECURSIVE SubpathForest(_, _, _, _)
SubpathForest(ps, sx, sy, pageHeightPt) ==
  IF ps = <<>> THEN <<>>
  ELSE appendPDFSubpathTree(ps[1], sx, sy, pageHeightPt)
         \o SubpathForest(Tail(ps), sx, sy, pageHeightPt)
appendPDFSubpathTree(p, sx, sy, pageHeightPt) ==
  appendPDFSubpath(p, sx, sy, pageHeightPt)
    \o SubpathForest(p.childs, sx, sy, pageHeightPt)

\* Faulty variant of GsEntries: one entry per layer of an alpha below 255.
RECURSIVE GsEntries_PerLayer(_, _)
GsEntries_PerLayer(colorLayers, acc) ==
  IF colorLayers = <<>> THEN acc
  ELSE IF colorLayers[1].alpha < Opaque
  THEN GsEntries_PerLayer(Tail(colorLayers),
                          Append(acc, [name |-> sGsName \o Dec(Len(acc) + 1),
                                       alpha |-> colorLayers[1].alpha]))
  ELSE GsEntries_PerLayer(Tail(colorLayers), acc)

\* gsEntries: one entry per distinct alpha below 255, in first-seen order.
RECURSIVE GsEntries(_, _)
GsEntries(colorLayers, acc) ==
  IF colorLayers = <<>> THEN acc
  ELSE LET cl == colorLayers[1]
           seen == \E k \in 1..Len(acc) : acc[k].alpha = cl.alpha
       IN  IF cl.alpha < Opaque /\ ~seen
           THEN GsEntries(Tail(colorLayers),
                          Append(acc, [name |-> sGsName \o Dec(Len(acc) + 1),
                                       alpha |-> cl.alpha]))
           ELSE GsEntries(Tail(colorLayers), acc)

GsName(gsEntries, alpha) ==
  (gsEntries[CHOOSE k \in 1..Len(gsEntries) : gsEntries[k].alpha = alpha]).name

\* The drawing operators of the tone layers (vector.go:306-330).
RECURSIVE LayerOps(_, _, _, _, _)
LayerOps(colorLayers, gsEntries, sx, sy, pageHeightPt) ==
  IF colorLayers = <<>> THEN <<>>
  ELSE LET cl == colorLayers[1]
           ops == IF Len(cl.paths) = 0 THEN <<>>
                  ELSE sBgOpen
                         \o (IF cl.alpha < Opaque
                             THEN GsName(gsEntries, cl.alpha) \o sGs ELSE <<>>)
                         \o Float4(Frac255(cl.r)) \o <<" ">>
                         \o Float4(Frac255(cl.g)) \o <<" ">>
                         \o Float4(Frac255(cl.b)) \o sRg
                         \o SubpathForest(cl.paths, sx, sy, pageHeightPt)
                         \o sFill
       IN  ops \o LayerOps(Tail(colorLayers), gsEntries, sx, sy, pageHeightPt)

\* The /Annots array with its symbolic destinations (vector.go:348-358).
RECURSIVE AnnotLines(_)
AnnotLines(links) ==
  IF links = <<>> THEN <<>>
  ELSE LET l == links[1]
       IN  sAnnotRect \o Float2(l.Rect[1]) \o <<" ">> \o Float2(l.Rect[2])
             \o <<" ">> \o Float2(l.Rect[3]) \o <<" ">> \o Float2(l.Rect[4])
             \o sAnnotDest \o Placeholder(l.DestPage) \o sAnnotEnd
             \o AnnotLines(Tail(links))

Annots(links) ==
  IF Len(links) > 0 THEN sAnnotsOpen \o AnnotLines(links) \o sAnnotsClose
  ELSE <<>>

RECURSIVE GsRefs(_, _)
GsRefs(gsEntries, firstID) ==
  IF gsEntries = <<>> THEN <<>>
  ELSE gsEntries[1].name \o <<" ">> \o Dec(firstID) \o sRefSp
         \o GsRefs(Tail(gsEntries), firstID + 1)

RECURSIVE GsObjects(_, _)
GsObjects(gsEntries, firstID) ==
  IF gsEntries = <<>> THEN <<>>
  ELSE <<[id |-> firstID,
          data |-> Dec(firstID) \o sGsObj
                     \o Float4(Frac255(gsEntries[1].alpha)) \o sDictEnd]>>
         \o GsObjects(Tail(gsEntries), firstID + 1)

\* Faulty variant of NumObjects: the image object is not counted.
NumObjects_NoImage(gsEntries, hasBG) == 2 + Len(gsEntries)

\* numObjects: page, contents, one per graphics state, one for the image.
NumObjects(gsEntries, hasBG) == 2 + Len(gsEntries) + (IF hasBG THEN 1 ELSE 0)

\* Rasters as embedded bytes: the white pixel of the OCR fallback, and a page
\* background cut down to two pixels.  The zlib stream is its two header
\* bytes followed by the payload, kept opaque.
WhitePixel == <<"0xFF", "0xFF", "0xFF">>
RasterRGB == <<"0x00", "0x9D", "0xFF", "0xFF", "0xFF", "0xFF">>
compressZlib(data) == <<"0x78", "0x9C">> \o data

\* buildVectorPageChunk.  bgRGB is a byte string or "nil"; zlibOK says whether
\* compressZlib succeeds.  Returns the chunk's objects and numObjects.
buildVectorPageChunk(colorLayers, bgRGB0, width, height, pageWidthPt, pageHeightPt, links, objStart, ocrFallback, zlibOK) ==
  LET hasBG0 == bgRGB0 # "nil"
      synth == ~hasBG0 /\ ocrFallback
      bgRGB == IF synth THEN WhitePixel ELSE bgRGB0
      bgWidth == IF synth THEN 1 ELSE width
      bgHeight == IF synth THEN 1 ELSE height
      hasBG == hasBG0 \/ synth
      gsEntries == GsEntries(colorLayers, <<>>)
      sx == pageWidthPt \div width
      sy == pageHeightPt \div height
      content ==
        (IF hasBG
         THEN sBgOpen \o Float4(pageWidthPt) \o sBgMid \o Float4(pageHeightPt)
                \o sBgDraw
         ELSE <<>>)
          \o LayerOps(colorLayers, gsEntries, sx, sy, pageHeightPt)
      pageObjID == objStart
      contentsObjID == objStart + 1
      firstGsID == objStart + 2
      numObjects == NumObjects(gsEntries, hasBG)
      imageObjID == objStart + 2 + Len(gsEntries)
      resources ==
        sResOpen
          \o (IF hasBG THEN sXObject \o Dec(imageObjID) \o sRefClose ELSE <<>>)
          \o (IF Len(gsEntries) > 0
              THEN sExtGState \o GsRefs(gsEntries, firstGsID) \o sDictClose
              ELSE <<>>)
          \o sResClose
      pageObj ==
        Dec(pageObjID) \o sPageHead \o Float2(pageWidthPt) \o <<" ">>
          \o Float2(pageHeightPt) \o sPageContents \o Dec(contentsObjID)
          \o sPageResources \o resources \o Annots(links) \o sPageEnd
      contentsObj ==
        Dec(contentsObjID) \o sLength \o Dec(Len(content)) \o sStream
          \o content \o sEndStream
      compressed == IF zlibOK THEN compressZlib(bgRGB) ELSE bgRGB
      imageObj ==
        Dec(imageObjID) \o sImageHead \o Dec(bgWidth) \o sImageHeight
          \o Dec(bgHeight) \o sImageSpace \o Dec(Len(compressed)) \o sStream
          \o compressed \o sImageEnd
  IN  [objects |->
         <<[id |-> pageObjID, data |-> pageObj],
           [id |-> contentsObjID, data |-> contentsObj]>>
           \o GsObjects(gsEntries, firstGsID)
           \o (IF hasBG THEN <<[id |-> imageObjID, data |-> imageObj]>>
               ELSE <<>>),
       numObjects |-> numObjects]

\* Faulty variant of pwWrite: the offset is not advanced.
pwWrite_NoAdvance(pw, data) == [pw EXCEPT !.file = @ \o data]

\* pdfWriter.write / writeStr: append the bytes, advance the offset.
pwWrite(pw, data) ==
  [pw EXCEPT !.file = @ \o data, !.offset = @ + Len(data)]

\* pdfWriter.writeHeader
writeHeader(pw) == pwWrite(pw, sHeader)

\* The loop of writeXrefTrailer over xrefOffsets: Fprintf, offset += 20.
RECURSIVE writeXrefEntries(_, _)
writeXrefEntries(pw, xrefOffsets) ==
  IF xrefOffsets = <<>> THEN pw
  ELSE writeXrefEntries(
         [pw EXCEPT !.file = @ \o Dec10(xrefOffsets[1]) \o sXrefInUse,
                    !.offset = @ + 20],
         Tail(xrefOffsets))

\* pdfWriter.writeXrefTrailer
writeXrefTrailer(pw, xrefOffsets, totalObjects) ==
  LET xrefStart == pw.offset
      p1 == pwWrite(pw, sXref)
      p2 == pwWrite(p1, <<"0", " ">> \o Dec(totalObjects + 1) \o <<"\n">>)
      p3 == pwWrite(p2, sXrefFree)
      p4 == writeXrefEntries(p3, xrefOffsets)
      p5 == pwWrite(p4, sTrailer)
      p6 == pwWrite(p5, sSize \o Dec(totalObjects + 1) \o sRoot)
      p7 == pwWrite(p6, sStartxref)
      p8 == pwWrite(p7, Dec(xrefStart) \o <<"\n">>)
  IN  pwWrite(p8, sEOF)

\* for _, obj := range chunk.objects { xrefOffsets[obj.id-1] = pw.offset;
\* pw.write(obj.data) }: the writer and the offsets after the objects.
XrefSlot(id) == id - 1

RECURSIVE writeObjects(_, _)
writeObjects(st, objects) ==
  IF objects = <<>> THEN st
  ELSE LET obj == objects[1]
           slot == XrefSlot(obj.id)
       IN  IF slot < 0 \/ slot >= Len(st.xrefOffsets)
           THEN [st EXCEPT !.panic = TRUE]
           ELSE writeObjects(
                  [st EXCEPT !.xrefOffsets[slot + 1] = st.pw.offset,
                             !.pw = pwWrite(st.pw, obj.data)],
                  Tail(objects))

\* Traced paths (the tracing oracle's output): a closed path of a corner and a
\* curve segment, and a path with that path as its child (a hole).
TriPath ==
  [curve |-> <<[type |-> "corner", pnt |-> <<<<0, 0>>, <<4, 0>>, <<4, 3>>>>],
               [type |-> "bezier", pnt |-> <<<<3, 3>>, <<1, 2>>, <<0, 0>>>>]>>,
   childs |-> <<>>]
RingPath ==
  [curve |-> <<[type |-> "corner", pnt |-> <<<<9, 9>>, <<20, 9>>, <<20, 30>>>>],
               [type |-> "corner", pnt |-> <<<<20, 30>>, <<9, 30>>, <<9, 9>>>>]>>,
   childs |-> <<TriPath>>]

\* Tone layers: what tracing the mask of a tone group yields, with the
\* group's colour and alpha.
InkLayer == [r |-> 0, g |-> 0, b |-> 0, alpha |-> Opaque, paths |-> <<RingPath>>]
MarkerLayer ==
  [r |-> 157, g |-> 157, b |-> 157, alpha |-> MarkerAlpha, paths |-> <<TriPath>>]
MarkerBlackLayer ==
  [r |-> 0, g |-> 0, b |-> 0, alpha |-> MarkerAlpha, paths |-> <<TriPath>>]

\* A group whose mask has pixels but whose tracing yields no path (the
\* oracle drops specks of up to TurdSize pixels).
Speck(layer) == [layer EXCEPT !.paths = <<>>]

IsMarker(cl) == cl.alpha < Opaque
IsInk(cl) == ~(cl.alpha < Opaque)

\* Faulty variant of SortMarkersFirst: the layers stay as they are.
SortMarkersFirst_Unsorted(layers) == layers

\* slices.SortStableFunc, markers first (vector.go:180-191).
SortMarkersFirst(layers) == SelectSeq(layers, IsMarker) \o SelectSeq(layers, IsInk)

\* Tracing found a path.
Traced(cl) == Len(cl.paths) # 0

\* Faulty variant of renderContentColorLayers: groups without a path stay.
renderContentColorLayers_KeepsEmpty(groups) == SortMarkersFirst(groups)

\* renderContentColorLayers from the traced groups on: a group without a path
\* gives no layer (vector.go:133-135, 171), markers go first
\* (vector.go:180-191).
renderContentColorLayers(groups) == SortMarkersFirst(SelectSeq(groups, Traced))

WhiteRaster == <<"0xFF", "0xFF", "0xFF", "0xFF", "0xFF", "0xFF">>

\* What decoding and tracing a page yields: its populated tone groups in
\* group order, traced, and its background raster.
BlankPage == [colorLayers |-> <<>>, bg |-> WhiteRaster]
InkPage == [colorLayers |-> <<InkLayer>>, bg |-> WhiteRaster]
FullPage == [colorLayers |-> <<InkLayer, MarkerLayer>>, bg |-> RasterRGB]
PageKinds == {BlankPage, FullPage}

\* Pages with specks and with two marker groups: ink and a marker speck, an
\* ink speck and a marker, ink and two markers, ink, a marker speck and a
\* marker.
LoneSpeckPage == [colorLayers |-> <<InkLayer, Speck(MarkerLayer)>>, bg |-> WhiteRaster]
InkSpeckPage == [colorLayers |-> <<Speck(InkLayer), MarkerLayer>>, bg |-> RasterRGB]
TwoMarkerPage ==
  [colorLayers |-> <<InkLayer, MarkerBlackLayer, MarkerLayer>>, bg |-> WhiteRaster]
SharedSpeckPage ==
  [colorLayers |-> <<InkLayer, Speck(MarkerBlackLayer), MarkerLayer>>, bg |-> RasterRGB]
TonePages == {LoneSpeckPage, InkSpeckPage, TwoMarkerPage, SharedSpeckPage}

\* A link of the notebook from page 0 (parseLinks: 0-based pages).
NoteLink(dest, sameFile) ==
  [SourcePage |-> 0, X |-> 100, Y |-> 200, W |-> 300, H |-> 50,
   DestPage |-> dest, SameFile |-> sameFile]

\* The link lists of the notebooks with n pages: none, one link to a page of
\* the document or just outside it, a link into another file, two links,
\* a link past the last page and a link into another file before a good one.
NotebookLinks(n) ==
  {<<>>}
    \cup {<<NoteLink(d, TRUE)>> : d \in {-1, 0, n - 1, n}}
    \cup {<<NoteLink(0, FALSE)>>}
    \cup {<<NoteLink(n - 1, TRUE), NoteLink(0, TRUE)>>}
    \cup {<<NoteLink(n, TRUE), NoteLink(0, FALSE), NoteLink(n - 1, TRUE)>>}

\* The pdfLink of a NoteLink (vector.go:533-541), fixed-point.
PdfLink(nl, scale, pageHeightPt) ==
  [Rect |-> <<nl.X * scale,
              pageHeightPt - (nl.Y + nl.H) * scale,
              (nl.X + nl.W) * scale,
              pageHeightPt - nl.Y * scale>>,
   DestPage |-> nl.DestPage]

\* Faulty variant of LinkKept: the destination is not checked against the
\* page count.
LinkKept_AnyDest(nl, totalPages) == nl.SameFile

\* The link filter (vector.go:530).
LinkKept(nl, totalPages) ==
  ~(~nl.SameFile \/ nl.DestPage < 0 \/ nl.DestPage >= totalPages)

\* pageLinks[i]: the kept links whose source page is i, in order.
RECURSIVE PageLinks(_, _, _, _, _)
PageLinks(links, i, totalPages, scale, pageHeightPt) ==
  IF links = <<>> THEN <<>>
  ELSE (IF LinkKept(links[1], totalPages) /\ links[1].SourcePage = i
        THEN <<PdfLink(links[1], scale, pageHeightPt)>> ELSE <<>>)
         \o PageLinks(Tail(links), i, totalPages, scale, pageHeightPt)

EmptyResult == [colorLayers |-> <<>>, bgRGB |-> "nil", err |-> FALSE]

\* renderPage(i) (vector.go:552-579): the result slot after the task.  ok says
\* whether the reads and the tracing succeed.
renderPage(page, noBg, ok) ==
  IF ~ok THEN [EmptyResult EXCEPT !.err = TRUE]
  ELSE LET allWhite == \A k \in 1..Len(page.bg) : page.bg[k] = "0xFF"
       IN  [colorLayers |-> renderContentColorLayers(page.colorLayers),
            bgRGB |-> IF ~noBg /\ ~allWhite THEN page.bg ELSE "nil",
            err |-> FALSE]

\* The options of a conversion and the environment's answer to compressZlib.
Options(parallel, noBg, zlibOK) ==
  [parallel |-> parallel, noBg |-> noBg, zlibOK |-> zlibOK]
Sequential == Options(FALSE, FALSE, TRUE)
OptionSets ==
  {Sequential, Options(TRUE, FALSE, TRUE), Options(FALSE, TRUE, TRUE),
   Options(FALSE, FALSE, FALSE)}

\* The frame of a conversion on entry.
CvFrame(mode, parseOK, pages, links, opts) ==
  [mode |-> mode, parseOK |-> parseOK, pages |-> pages, links |-> links,
   parallel |-> opts.parallel, noBg |-> opts.noBg, zlibOK |-> opts.zlibOK,
   width |-> NomadWidth, height |-> NomadHeight,
   pageWidthPt |-> (NomadWidth * PointsPerInch * Unit) \div NomadPPI,
   pageHeightPt |-> (NomadHeight * PointsPerInch * Unit) \div NomadPPI,
   totalPages |-> Len(pages),
   results |-> [k \in 1..Len(pages) |-> EmptyResult],
   task |-> [k \in 1..Len(pages) |-> "none"],
   i |-> 0, sem |-> 0, wg |-> 0,
   nextObjID |-> 0, pageObjIDs |-> <<>>, chunks |-> <<>>,
   fileState |-> "absent", pw |-> [file |-> <<>>, offset |-> 0],
   totalObjects |-> 0, xrefOffsets |-> <<>>, panic |-> FALSE,
   ret |-> "none", pc |-> "start"]

CvIdle == [CvFrame("none", FALSE, <<>>, <<>>, Sequential) EXCEPT !.pc = "idle"]

\* ConvertNoteToPDFVector up to the page loop (vector.go:514-550, 581-598).
ConvStart ==
  /\ cv.pc = "start"
  /\ cv.mode = "note"
  /\ cv' = IF ~cv.parseOK THEN [cv EXCEPT !.ret = "error", !.pc = "failed"]
           ELSE IF cv.parallel
           THEN [cv EXCEPT !.pc = IF cv.totalPages = 0 THEN "wait" ELSE "spawn"]
           ELSE [cv EXCEPT !.pc = IF cv.totalPages = 0 THEN "check" ELSE "render"]
  /\ UNCHANGED OtherThanCv

\* Sequential mode: one iteration of the page loop (vector.go:595-597).
RenderSeq ==
  /\ cv.pc = "render"
  /\ \E ok \in BOOLEAN :
       cv' = [cv EXCEPT
                !.results[cv.i + 1] = renderPage(cv.pages[cv.i + 1], cv.noBg, ok),
                !.task[cv.i + 1] = "done",
                !.i = cv.i + 1,
                !.pc = IF cv.i + 1 = cv.totalPages THEN "check" ELSE "render"]
  /\ UNCHANGED OtherThanCv

\* Parallel mode: wg.Add(1); sem <- struct{}{}; go func() (vector.go:584-592).
Spawn ==
  /\ cv.pc = "spawn"
  /\ cv.sem < GoMaxProcs
  /\ cv' = [cv EXCEPT
              !.wg = cv.wg + 1,
              !.sem = cv.sem + 1,
              !.task[cv.i + 1] = "running",
              !.i = cv.i + 1,
              !.pc = IF cv.i + 1 = cv.totalPages THEN "wait" ELSE "spawn"]
  /\ UNCHANGED OtherThanCv

\* A page task: renderPage(i) writes results[i].
TaskRender(p) ==
  /\ cv.task[p] = "running"
  /\ \E ok \in BOOLEAN :
       cv' = [cv EXCEPT !.results[p] = renderPage(cv.pages[p], cv.noBg, ok),
                        !.task[p] = "rendered"]
  /\ UNCHANGED OtherThanCv

\* A page task: defer func() { <-sem }().
TaskRelease(p) ==
  /\ cv.task[p] = "rendered"
  /\ cv' = [cv EXCEPT !.sem = cv.sem - 1, !.task[p] = "released"]
  /\ UNCHANGED OtherThanCv

\* A page task: defer wg.Done().
TaskDone(p) ==
  /\ cv.task[p] = "released"
  /\ cv' = [cv EXCEPT !.wg = cv.wg - 1, !.task[p] = "done"]
  /\ UNCHANGED OtherThanCv

\* Faulty variant of Wait that does not wait for the tasks.
Wait_NoBarrier ==
  /\ cv.pc = "wait"
  /\ cv' = [cv EXCEPT !.pc = "check"]
  /\ UNCHANGED OtherThanCv

\* wg.Wait() (vector.go:593).
Wait ==
  /\ cv.pc = "wait"
  /\ cv.wg = 0
  /\ cv' = [cv EXCEPT !.pc = "check"]
  /\ UNCHANGED OtherThanCv

\* Faulty variant of AnyPageFailed: only the first result is looked at.
AnyPageFailed_FirstOnly(results) == Len(results) > 0 /\ results[1].err

\* for i, r := range results { if r.err != nil ... } (vector.go:600-604).
AnyPageFailed(results) == \E k \in 1..Len(results) : results[k].err

\* The error check over the results (vector.go:600-604), then the set-up of
\* the allocation loop (vector.go:606-608).
CheckResults ==
  /\ cv.pc = "check"
  /\ cv' = IF AnyPageFailed(cv.results)
           THEN [cv EXCEPT !.ret = "error", !.pc = "failed"]
           ELSE [cv EXCEPT
                   !.nextObjID = FirstChunkID,
                   !.pageObjIDs = [k \in 1..cv.totalPages |-> 0],
                   !.chunks = [k \in 1..cv.totalPages |-> <<>>],
                   !.i = 0,
                   !.pc = IF cv.totalPages = 0 THEN "create" ELSE "alloc"]
  /\ UNCHANGED OtherThanCv

\* One iteration of the allocation loop (vector.go:610-623).
AllocChunk ==
  /\ cv.pc = "alloc"
  /\ LET r == cv.results[cv.i + 1]
         built == buildVectorPageChunk(
                    r.colorLayers, r.bgRGB, cv.width, cv.height,
                    cv.pageWidthPt, cv.pageHeightPt,
                    PageLinks(cv.links, cv.i, cv.totalPages,
                              (PointsPerInch * Unit) \div NomadPPI,
                              cv.pageHeightPt),
                    cv.nextObjID, TRUE, cv.zlibOK)
     IN  cv' = [cv EXCEPT
                  !.pageObjIDs[cv.i + 1] = cv.nextObjID,
                  !.chunks[cv.i + 1] = built.objects,
                  !.nextObjID = cv.nextObjID + built.numObjects,
                  !.i = IF cv.i + 1 = cv.totalPages THEN 0 ELSE cv.i + 1,
                  !.pc = IF cv.i + 1 = cv.totalPages THEN "resolve" ELSE "alloc"]
  /\ UNCHANGED OtherThanCv

\* The inner loop of the placeholder pass (vector.go:628-632): destPage runs
\* over 0..len(pageObjIDs)-1 in order.
RECURSIVE ResolvePlaceholders(_, _, _)
ResolvePlaceholders(data, pageObjIDs, destPage) ==
  IF destPage >= Len(pageObjIDs) THEN data
  ELSE ResolvePlaceholders(
         ReplaceAll(data, Placeholder(destPage),
                    Reference(pageObjIDs[destPage + 1])),
         pageObjIDs, destPage + 1)

\* One iteration of the placeholder pass (vector.go:626-634).
ResolveChunk ==
  /\ cv.pc = "resolve"
  /\ cv' = [cv EXCEPT
              !.chunks[cv.i + 1][1].data =
                 ResolvePlaceholders(@, cv.pageObjIDs, 0),
              !.i = IF cv.i + 1 = cv.totalPages THEN 0 ELSE cv.i + 1,
              !.pc = IF cv.i + 1 = cv.totalPages THEN "create" ELSE "resolve"]
  /\ UNCHANGED OtherThanCv

\* os.Create and the writer set-up (vector.go:636-644).
CreateFile ==
  /\ cv.pc = "create"
  /\ \E ok \in BOOLEAN :
       cv' = IF ~ok THEN [cv EXCEPT !.ret = "error", !.pc = "failed"]
             ELSE [cv EXCEPT
                     !.fileState = "created",
                     !.pw = [file |-> <<>>, offset |-> 0],
                     !.totalObjects = cv.nextObjID - 1,
                     !.xrefOffsets = [k \in 1..(cv.nextObjID - 1) |-> 0],
                     !.pc = "head"]
  /\ UNCHANGED OtherThanCv

\* Faulty variant of PageRefs: the page tree names the object after each
\* page object.
RECURSIVE PageRefs_NextObject(_, _)
PageRefs_NextObject(pageObjIDs, k) ==
  IF k > Len(pageObjIDs) THEN <<>>
  ELSE (IF k > 1 THEN <<" ">> ELSE <<>>) \o Dec(pageObjIDs[k] + 1) \o sRef
         \o PageRefs_NextObject(pageObjIDs, k + 1)

\* The page references of the page tree (vector.go:652-658).
RECURSIVE PageRefs(_, _)
PageRefs(pageObjIDs, k) ==
  IF k > Len(pageObjIDs) THEN <<>>
  ELSE (IF k > 1 THEN <<" ">> ELSE <<>>) \o Dec(pageObjIDs[k]) \o sRef
         \o PageRefs(pageObjIDs, k + 1)

\* Header, catalog and page tree (vector.go:646-659).
WriteHead ==
  /\ cv.pc = "head"
  /\ LET p1 == writeHeader(cv.pw)
         p2 == pwWrite(p1, sCatalog)
         p3 == pwWrite(p2, sPagesHead \o PageRefs(cv.pageObjIDs, 1) \o sPagesCount
                             \o Dec(cv.totalPages) \o sDictEnd)
     IN  cv' = [cv EXCEPT
                  !.xrefOffsets[1] = p1.offset,
                  !.xrefOffsets[2] = p2.offset,
                  !.pw = p3,
                  !.i = 0,
                  !.pc = IF cv.totalPages = 0 THEN "trailer" ELSE "objects"]
  /\ UNCHANGED OtherThanCv

\* One iteration of the chunk loop (vector.go:661-666).
WriteChunk ==
  /\ cv.pc = "objects"
  /\ LET st == writeObjects([pw |-> cv.pw, xrefOffsets |-> cv.xrefOffsets,
                             panic |-> FALSE], cv.chunks[cv.i + 1])
     IN  cv' = IF st.panic THEN [cv EXCEPT !.panic = TRUE, !.pc = "panic"]
               ELSE [cv EXCEPT
                       !.pw = st.pw, !.xrefOffsets = st.xrefOffsets,
                       !.i = cv.i + 1,
                       !.pc = IF cv.i + 1 = Len(cv.chunks) THEN "trailer"
                              ELSE "objects"]
  /\ UNCHANGED OtherThanCv

\* pw.writeXrefTrailer and the flush (vector.go:668-669, 700-701).
WriteTrailer ==
  /\ cv.pc = "trailer"
  /\ cv' = [cv EXCEPT
              !.pw = writeXrefTrailer(cv.pw, cv.xrefOffsets, cv.totalObjects),
              !.ret = "ok",
              !.pc = "done"]
  /\ UNCHANGED OtherThanCv

\* traceAndOverlayMask: the overlay chunk of one traced mask (part_001:280-290).
OverlayStart ==
  /\ cv.pc = "start"
  /\ cv.mode = "overlay"
  /\ LET built == buildVectorPageChunk(
                    cv.pages[1].colorLayers, "nil", cv.width, cv.height,
                    cv.pageWidthPt, cv.pageHeightPt, <<>>, FirstChunkID,
                    FALSE, cv.zlibOK)
     IN  cv' = [cv EXCEPT !.chunks = <<built.objects>>, !.pc = "onepage"]
  /\ UNCHANGED OtherThanCv

\* writeOnePageVectorPDF up to the trailer (vector.go:674-698).
WriteOnePage ==
  /\ cv.pc = "onepage"
  /\ \E ok \in BOOLEAN :
       IF ~ok THEN cv' = [cv EXCEPT !.ret = "error", !.pc = "failed"]
       ELSE LET chunk == cv.chunks[1]
                pageObjID == FirstChunkID
                totalObjects == 2 + Len(chunk)
                p1 == writeHeader([file |-> <<>>, offset |-> 0])
                p2 == pwWrite(p1, sCatalog)
                p3 == pwWrite(p2, sPagesHead \o Dec(pageObjID) \o sRef
                                    \o sPagesCount \o <<"1">> \o sDictEnd)
                x0 == [[k \in 1..totalObjects |-> 0] EXCEPT
                         ![1] = p1.offset, ![2] = p2.offset]
                st == writeObjects([pw |-> p3, xrefOffsets |-> x0,
                                    panic |-> FALSE], chunk)
            IN  cv' = IF st.panic
                      THEN [cv EXCEPT !.fileState = "created", !.panic = TRUE,
                                      !.pc = "panic"]
                      ELSE [cv EXCEPT
                              !.fileState = "created",
                              !.totalObjects = totalObjects,
                              !.pw = st.pw, !.xrefOffsets = st.xrefOffsets,
                              !.pc = "trailer"]
  /\ UNCHANGED OtherThanCv

\* The mask layers traceAndOverlayMask builds its chunk from.
OverlayPages ==
  {[colorLayers |-> <<[InkLayer EXCEPT !.paths = ps]>>, bg |-> WhiteRaster] :
     ps \in {<<TriPath>>, <<RingPath, TriPath>>}}

\* The notebooks of at most MaxPages pages with their links.
SmallNotebooks ==
  UNION {{[pages |-> ps, links |-> ls] : ls \in NotebookLinks(Len(ps))} :
           ps \in BSeq(PageKinds, MaxPages)}

\* The notebooks of at most MaxPages pages with specks and marker groups.
ToneNotebooks ==
  {[pages |-> ps, links |-> <<>>] : ps \in BSeq(TonePages, MaxPages) \ {<<>>}}

\* Notebooks of LongPages pages, so that a page index has two digits.
LongNotebooks ==
  {[pages |-> [k \in 1..LongPages |-> InkPage], links |-> <<NoteLink(d, TRUE)>>] :
     d \in {1, LongPages - 1}}

\* ---------------------------------------------------------------------------
\* Claims about the written document.
\* ---------------------------------------------------------------------------

\* The placeholder pass of ConvertNoteToPDFVector is over.
Resolved ==
  cv.mode = "note" /\ cv.pc \in {"create", "head", "objects", "trailer", "done"}

\* The links page i (0-based) was built with.
LinksOfPage(i) ==
  PageLinks(cv.links, i, cv.totalPages, (PointsPerInch * Unit) \div NomadPPI,
            cv.pageHeightPt)

\* The destination array a resolved link to page index d must hold.
ResolvedDest(d) == sFitDest \o Reference(cv.pageObjIDs[d + 1]) \o sFit

\* C1: after the placeholder pass every link annotation to page index d holds
\* exactly the reference "<pageObjIDs[d]> 0 R" and no "PAGEOBJ_" text remains,
\* for documents of any number of pages, more than 10 included.
C1_PlaceholdersResolvedExactly ==
  Resolved =>
    \A i \in 1..Len(cv.chunks) :
      LET data == cv.chunks[i][1].data
          links == LinksOfPage(i - 1)
      IN  /\ ~Contains(data, sPlaceholder)
          /\ \A k \in 1..Len(links) :
               Contains(data, ResolvedDest(links[k].DestPage))

\* C1 restricted to the documents of at most 10 pages, where no placeholder is
\* a prefix of another one.
C1_ResolvedUpToTenPages ==
  (Resolved /\ cv.totalPages <= 10) =>
    \A i \in 1..Len(cv.chunks) :
      LET data == cv.chunks[i][1].data
          links == LinksOfPage(i - 1)
      IN  /\ ~Contains(data, sPlaceholder)
          /\ \A k \in 1..Len(links) :
               Contains(data, ResolvedDest(links[k].DestPage))

\* The corrupted annotation: in a document of LongPages pages a link of page 0
\* to the last page holds the reference of page 1 followed by the last digit
\* of the page index.
C1_PrefixCorruption ==
  /\ Resolved
  /\ cv.totalPages = LongPages
  /\ Len(LinksOfPage(0)) = 1
  /\ LinksOfPage(0)[1].DestPage = LongPages - 1
  /\ Contains(cv.chunks[1][1].data,
              sFitDest \o Reference(cv.pageObjIDs[2])
                \o Tail(Dec(LongPages - 1)) \o sFit)
  /\ ~Contains(cv.chunks[1][1].data, ResolvedDest(LongPages - 1))

\* A two-page document whose page 0 links to page 1, resolved.
C1_Witness ==
  /\ Resolved
  /\ cv.totalPages = 2
  /\ Len(LinksOfPage(0)) = 1
  /\ LinksOfPage(0)[1].DestPage = 1
  /\ Contains(cv.chunks[1][1].data, ResolvedDest(1))

\* The document is complete: the trailer is written.
Written == cv.pc = "done"

\* The last place where s occurs in data (0 when it does not occur).
LastIndex(data, s) ==
  IF Contains(data, s)
  THEN CHOOSE k \in 1..Len(data) :
         MatchAt(data, s, k) /\ \A j \in (k + 1)..Len(data) : ~MatchAt(data, s, j)
  ELSE 0

\* The decimal number that starts at place k of data (1-based).
RECURSIVE NumberEnd(_, _)
NumberEnd(data, k) ==
  IF k <= Len(data) /\ \E d \in 1..10 : Digits[d] = data[k]
  THEN NumberEnd(data, k + 1) ELSE k

NumberAt(data, k) == DecValue(SubSeq(data, k, NumberEnd(data, k) - 1))

\* What a reader of the file finds: the offset startxref names, the place of
\* the first table entry, the offset entry N records.
Startxref(file) == NumberAt(file, LastIndex(file, sStartxref) + Len(sStartxref))

XrefCountAt(file) == Startxref(file) + 1 + Len(sXref) + 2

XrefEntriesAt(file) == NumberEnd(file, XrefCountAt(file)) + 1

XrefEntry(file, N) == NumberAt(file, XrefEntriesAt(file) + 20 * N)

\* C2: in every written document the xref entry of each object id N in
\* 1..highest id is the offset where object N begins, the table has highest
\* id + 1 entries with entry 0 the free entry, /Size is highest id + 1, and
\* startxref names the offset of the xref section.
C2_XrefOffsetsExact ==
  Written =>
    LET file == cv.pw.file
        highest == cv.totalObjects
        entries == XrefEntriesAt(file)
        after == entries + 20 * (highest + 1)
    IN  /\ MatchAt(file, sXref \o <<"0", " ">> \o Dec(highest + 1) \o <<"\n">>,
                   Startxref(file) + 1)
        /\ MatchAt(file, sXrefFree, entries)
        /\ \A N \in 1..highest :
             /\ MatchAt(file, sXrefInUse, entries + 20 * N + 10)
             /\ file[XrefEntry(file, N)] = "\n"
             /\ MatchAt(file, Dec(N) \o sObj, XrefEntry(file, N) + 1)
        /\ MatchAt(file, sTrailer \o sSize \o Dec(highest + 1) \o sRoot
                           \o sStartxref, after)

\* A written two-page document of nine objects, and a written overlay page.
C2_Witness ==
  /\ Written
  /\ cv.mode = "note"
  /\ cv.totalPages = 2
  /\ cv.totalObjects = 9
  /\ XrefEntry(cv.pw.file, 9) > XrefEntry(cv.pw.file, 3)

C2_WitnessOverlay ==
  /\ Written
  /\ cv.mode = "overlay"
  /\ XrefEntry(cv.pw.file, cv.totalObjects) > XrefEntry(cv.pw.file, 3)

\* The ids of the objects of the chunks built so far, in page order.
RECURSIVE ChunkIDs(_, _)
ChunkIDs(chunks, k) ==
  IF k > Len(chunks) THEN <<>>
  ELSE [j \in 1..Len(chunks[k]) |-> chunks[k][j].id] \o ChunkIDs(chunks, k + 1)

\* The pages allocated so far.
Allocated ==
  IF cv.pc = "alloc" THEN cv.i
  ELSE IF cv.pc \in {"resolve", "create", "head", "objects", "trailer", "done"}
  THEN cv.totalPages ELSE 0

\* C3: object 1 is the catalog, object 2 the page tree, the chunk objects have
\* exactly the ids 3..totalObjects, each once; page i's objects are a
\* contiguous block from pageObjIDs[i], blocks follow page order, and
\* nextObjID never decreases nor hands out an id twice.
C3_ObjectIDsContiguous ==
  /\ [](cv.mode = "note" =>
          LET ids == ChunkIDs(SubSeq(cv.chunks, 1, Allocated), 1)
          IN  /\ \A k \in 1..Len(ids) : ids[k] = FirstChunkID + k - 1
              /\ Allocated > 0 => cv.nextObjID = FirstChunkID + Len(ids)
              /\ \A p \in 1..Allocated :
                   /\ cv.chunks[p][1].id = cv.pageObjIDs[p]
                   /\ p < Allocated =>
                        cv.pageObjIDs[p + 1] = cv.pageObjIDs[p] + Len(cv.chunks[p])
              /\ cv.fileState = "created" =>
                   cv.totalObjects = FirstChunkID + Len(ids) - 1
              /\ cv.pc \in {"objects", "trailer", "done"} =>
                   /\ MatchAt(cv.pw.file, sCatalog, cv.xrefOffsets[1] + 1)
                   /\ MatchAt(cv.pw.file, sPagesHead, cv.xrefOffsets[2] + 1))
  /\ [][cv'.nextObjID >= cv.nextObjID]_vars

\* Two pages allocated, the first with a graphics state and an image.
C3_Witness ==
  /\ cv.mode = "note"
  /\ cv.pc = "done"
  /\ cv.totalPages = 2
  /\ Len(cv.chunks[1]) = 4
  /\ cv.pageObjIDs = <<3, 7>>

\* C4: when rendering a page fails, in sequential or in parallel mode, the
\* conversion returns an error and the output file is never created: the
\* file is created only after every page has been rendered and every result
\* checked and found free of errors.
C4_RenderFailureLeavesNoFile ==
  cv.mode = "note" =>
    /\ (\E k \in 1..cv.totalPages : cv.results[k].err) =>
         /\ cv.fileState = "absent"
         /\ cv.pw.file = <<>>
         /\ cv.pc \in {"render", "spawn", "wait", "check", "failed"}
         /\ cv.pc = "failed" => cv.ret = "error"
    /\ cv.fileState = "created" =>
         \A k \in 1..cv.totalPages :
           cv.task[k] = "done" /\ ~cv.results[k].err

\* A parallel conversion whose second page failed after the first succeeded.
C4_Witness ==
  /\ cv.mode = "note"
  /\ cv.parallel
  /\ cv.totalPages = 2
  /\ ~cv.results[1].err
  /\ cv.results[2].err
  /\ cv.pc = "failed"
  /\ cv.ret = "error"
  /\ cv.fileState = "absent"

\* The same in sequential mode.
C4_WitnessSequential ==
  /\ cv.mode = "note"
  /\ ~cv.parallel
  /\ cv.totalPages = 2
  /\ ~cv.results[1].err
  /\ cv.results[2].err
  /\ cv.pc = "failed"
  /\ cv.ret = "error"
  /\ cv.fileState = "absent"

\* Address of the blocks that are not at the zero address.
BlockAddr == 24

\* Index of the first element of s that is in set; 0 when there is none.
FirstIn(s, set) ==
  IF \E k \in 1..Len(s) : s[k] \in set
  THEN CHOOSE k \in 1..Len(s) : s[k] \in set /\ \A j \in 1..(k - 1) : s[j] \notin set
  ELSE 0

\* The tolerant grammar, on the text of a block: bytes up to a '<' are skipped; a
\* '<' with no ':' before the next '<', '>' or the end is skipped, and reading
\* goes on behind it; a '<KEY:' with no '>' behind it ends the block; otherwise
\* <KEY:VALUE> is a record and reading goes on behind its '>'.
RECURSIVE TolerantRecords(_)
TolerantRecords(s) ==
  IF s = <<>> THEN <<>>
  ELSE IF Head(s) # "<" THEN TolerantRecords(Tail(s))
  ELSE LET r == Tail(s)
           stop == FirstIn(r, {":", "<", ">"})
       IN  IF stop = 0 THEN <<>>
           ELSE IF r[stop] # ":" THEN TolerantRecords(SubSeq(r, stop, Len(r)))
           ELSE LET after == SubSeq(r, stop + 1, Len(r))
                    close == FirstIn(after, {">"})
                IN  IF close = 0 THEN <<>>
                    ELSE <<[key |-> SubSeq(r, 1, stop - 1),
                            value |-> SubSeq(after, 1, close - 1)]>>
                         \o TolerantRecords(SubSeq(after, close + 1, Len(after)))

\* The map a sequence of records denotes: a later record replaces an earlier one.
RECURSIVE RecordMap(_)
RecordMap(recs) ==
  IF recs = <<>> THEN EmptyMap
  ELSE LET last == recs[Len(recs)]
           init == RecordMap(SubSeq(recs, 1, Len(recs) - 1))
       IN  [k \in DOMAIN init \cup {last.key} |->
              IF k = last.key THEN last.value ELSE init[k]]

\* C9: on every block the scan never indexes outside the block and never fails
\* once the block is read, every loop iteration moves the index forward or ends
\* the scan (so it terminates), and the result is the record map of the tolerant
\* grammar: malformed records skipped, later records kept, a ':' without a
\* closing '>' ending the block with the records parsed so far.
C9_TolerantParse ==
  /\ [](/\ blk.pc # "panic"
        /\ (blk.addr # 0 /\ blk.readable) => blk.pc # "error"
        /\ blk.i >= 0 /\ blk.i <= Len(blk.buf)
        /\ (blk.pc = "done" /\ blk.addr # 0) =>
             blk.result = RecordMap(TolerantRecords(blk.block)))
  /\ [][(blk.pc = "scan" /\ blk'.pc = "scan") => blk'.i > blk.i]_vars

\* C9 witness: a block in which a malformed record precedes a well-formed one and
\* a record with ':' but no '>' ends the block; the well-formed one is returned.
C9_Witness ==
  /\ blk.pc = "done"
  /\ blk.block = <<"<", "<", ":", ">", "<", ":">>
  /\ blk.i = 5
  /\ blk.result = [k \in {<<>>} |-> <<>>]

\* The records of the items a block was built from, as a map.
ItemMap(items) ==
  LET recs == {n \in 1..Len(items) : items[n].kind = "record"}
  IN  [k \in {items[n].key : n \in recs} |->
         (items[CHOOSE n \in recs : items[n].key = k]).value]

\* C10: a block serialised from <KEY:VALUE> records with distinct keys, in any
\* order and with malformed records between them, parses to exactly those pairs.
C10_RoundTrip ==
  (blk.pc = "done" /\ blk.input = "records") => blk.result = ItemMap(blk.items)

\* C10 witness: three records around malformed ones parsed back.
C10_Witness ==
  /\ blk.pc = "done"
  /\ blk.input = "records"
  /\ Len(blk.items) = 3
  /\ blk.items[1].kind = "record"
  /\ blk.items[2].kind = "malformed"
  /\ blk.items[3].kind = "record"
  /\ blk.items[3].value = <<"<", ":">>
  /\ Cardinality(DOMAIN blk.result) = 2

(***************************************************************************)
(*                      The notebook parser: ParseNotebook                 *)
(* A notebook file is given by what its reads return: whether it opens,    *)
(* whether the signature and the footer address can be read, and for each  *)
(* address whether the block there can be read and the key/value map       *)
(* parseMetadataBlock returns for it.  Keys and values are strings.        *)
(***************************************************************************)

MantaWidth == 1920
MantaHeight == 2560
MantaPPI == 300

\* Bound: PAGE<N> keys of the footers.
MaxFooterPages == 2

\* Bound: LINKO_ keys of the footers.
MaxFooterLinks == 2

\* Block addresses of the model files.
FooterAddr == 900
HeaderAddr == 50
LinkAddr == 400
BitmapAddr == 700

PageAddr(n) == 100 * n
LayerAddr(n) == 100 * n + 10
LinkBlockAddr(n) == LinkAddr + 10 * n

\* The integers whose decimal numerals occur in the model files.
Numbers ==
  (-1..(MaxFooterPages + 2)) \cup {HeaderAddr, BitmapAddr}
    \cup {PageAddr(n) : n \in 1..(MaxFooterPages + 1)}
    \cup {LayerAddr(n) : n \in 1..(MaxFooterPages + 1)}
    \cup {LinkBlockAddr(n) : n \in 1..(MaxFooterLinks + 1)}

\* strconv.Atoi(s): the number s is the numeral of, or an error.
Atoi(s) ==
  LET hits == {n \in Numbers : ToString(n) = s}
  IN  IF hits = {} THEN [ok |-> FALSE, n |-> 0]
      ELSE [ok |-> TRUE, n |-> CHOOSE n \in hits : TRUE]

\* strconv.ParseUint(s, 10, 64): as Atoi, and a sign is an error.
ParseUint(s) ==
  LET r == Atoi(s)
  IN  IF r.ok /\ r.n >= 0 THEN r ELSE [ok |-> FALSE, n |-> 0]

\* strings.Split(s, ",") of the list values of the model files.
SplitComma(s) ==
  CASE s = "1,2,3,4" -> <<"1", "2", "3", "4">>
    [] s = "1,2,3" -> <<"1", "2", "3">>
    [] s = "1,x,3,4" -> <<"1", "x", "3", "4">>
    [] s = "MAINLAYER,BGLAYER" -> <<"MAINLAYER", "BGLAYER">>
    [] s = "BGLAYER,MAINLAYER" -> <<"BGLAYER", "MAINLAYER">>
    [] OTHER -> <<s>>

\* The footer keys that start with "PAGE".
PageKey(n) == "PAGE" \o ToString(n)
PageKeys == {PageKey(n) : n \in 1..(MaxFooterPages + 1)} \cup {"PAGESTYLE"}

\* strings.HasPrefix(k, "PAGE")
HasPagePrefix(k) == k \in PageKeys

\* strconv.Atoi(strings.TrimPrefix(k, "PAGE"))
PageKeyIndex(k) ==
  LET hits == {n \in Numbers : PageKey(n) = k}
  IN  IF hits = {} THEN [ok |-> FALSE, n |-> 0]
      ELSE [ok |-> TRUE, n |-> CHOOSE n \in hits : TRUE]

\* The footer keys that start with "LINKO_": source page in four digits, then
\* a serial number; "LINKO_x" is shorter than ten bytes, and the source page
\* of "LINKO_00x10004" is no numeral.
LinkKey(n) ==
  CASE n = 1 -> "LINKO_00010001"
    [] n = 2 -> "LINKO_00010002"
    [] n = 3 -> "LINKO_00020003"
    [] OTHER -> "LINKO_00010009"
LinkKeys == {LinkKey(n) : n \in 1..(MaxFooterLinks + 1)} \cup {"LINKO_x", "LINKO_00x10004"}

\* strings.HasPrefix(k, "LINKO_") && len(k) >= 10
IsLinkKey(k) == k \in LinkKeys /\ Len(k) >= 10

\* strconv.Atoi(k[6:10])
LinkKeySource(k) ==
  CASE k \in {"LINKO_00010001", "LINKO_00010002", "LINKO_00010009"} -> [ok |-> TRUE, n |-> 1]
    [] k = "LINKO_00020003" -> [ok |-> TRUE, n |-> 2]
    [] OTHER -> [ok |-> FALSE, n |-> 0]

\* parseMetadataBlock(f, addr) on a model file: address 0 is the empty map.
ReadBlock(file, addr) ==
  IF addr = 0 THEN [err |-> FALSE, map |-> <<>>]
  ELSE IF addr \notin DOMAIN file.blocks THEN [err |-> TRUE, map |-> <<>>]
  ELSE IF ~file.blocks[addr].readable THEN [err |-> TRUE, map |-> <<>>]
  ELSE [err |-> FALSE, map |-> file.blocks[addr].map]

\* m[key] of a Go map[string]string: "" when the key is absent.
Lookup(m, key) == IF key \in DOMAIN m THEN m[key] ELSE ""

\* detectDeviceDimensions (go.mod:165-177).
detectDeviceDimensions(file, footerMap) ==
  LET nomad == [width |-> NomadWidth, height |-> NomadHeight, ppi |-> NomadPPI]
      manta == [width |-> MantaWidth, height |-> MantaHeight, ppi |-> MantaPPI]
      none == [dims |-> nomad, hasHeader |-> FALSE, headerMap |-> <<>>]
  IN  IF "FILE_FEATURE" \notin DOMAIN footerMap THEN none
      ELSE IF ~ParseUint(footerMap["FILE_FEATURE"]).ok THEN none
      ELSE LET r == ReadBlock(file, ParseUint(footerMap["FILE_FEATURE"]).n)
           IN  IF r.err THEN none
               ELSE IF Lookup(r.map, "APPLY_EQUIPMENT") = "N5"
               THEN [dims |-> manta, hasHeader |-> TRUE, headerMap |-> r.map]
               ELSE [dims |-> nomad, hasHeader |-> TRUE, headerMap |-> r.map]

defaultLayerOrder == <<"BGLAYER", "MAINLAYER", "LAYER1", "LAYER2", "LAYER3">>

\* The page entries of the footer (go.mod:217-230).
PageEntrySet(footerMap) ==
  {[index |-> PageKeyIndex(k).n, addr |-> ParseUint(footerMap[k]).n] :
     k \in {x \in DOMAIN footerMap :
              HasPagePrefix(x) /\ PageKeyIndex(x).ok /\ ParseUint(footerMap[x]).ok}}

\* slices.SortFunc by index (go.mod:232-234).
RECURSIVE SortByIndex(_)
SortByIndex(entries) ==
  IF entries = {} THEN <<>>
  ELSE LET first == CHOOSE e \in entries : \A o \in entries : e.index <= o.index
       IN  <<first>> \o SortByIndex(entries \ {first})

\* The layer of one key of the layer order, or nothing (go.mod:249-273).
LayerOfKey(file, pageMap, key) ==
  IF key \notin DOMAIN pageMap THEN <<>>
  ELSE IF ~ParseUint(pageMap[key]).ok THEN <<>>
  ELSE LET r == ReadBlock(file, ParseUint(pageMap[key]).n)
       IN  IF r.err THEN <<>>
           ELSE <<[Key |-> key,
                   Protocol |-> Lookup(r.map, "LAYERPROTOCOL"),
                   LayerType |-> Lookup(r.map, "LAYERTYPE"),
                   BitmapAddress |-> ParseUint(Lookup(r.map, "LAYERBITMAP")).n]>>

\* The layers of a page, in layer order.
RECURSIVE PageLayers(_, _, _)
PageLayers(file, pageMap, layerOrder) ==
  IF layerOrder = <<>> THEN <<>>
  ELSE LayerOfKey(file, pageMap, layerOrder[1])
         \o PageLayers(file, pageMap, Tail(layerOrder))

\* One turn of the loop of parseLinks (go.mod:295-350): the link of key k,
\* or nothing when the link is dropped.
LinkOfKey(file, footerMap, fileID, k) ==
  IF ~IsLinkKey(k) THEN <<>>
  ELSE IF ~LinkKeySource(k).ok THEN <<>>
  ELSE IF ~ParseUint(footerMap[k]).ok THEN <<>>
  ELSE LET r == ReadBlock(file, ParseUint(footerMap[k]).n)
           linkMap == r.map
           parts == SplitComma(Lookup(linkMap, "LINKRECT"))
       IN  IF r.err THEN <<>>
           ELSE IF "LINKRECT" \notin DOMAIN linkMap THEN <<>>
           ELSE IF Len(parts) # 4 THEN <<>>
           ELSE IF \E i \in 1..4 : ~Atoi(parts[i]).ok THEN <<>>
           ELSE IF "OBJPAGE" \notin DOMAIN linkMap THEN <<>>
           ELSE IF ~Atoi(linkMap["OBJPAGE"]).ok THEN <<>>
           ELSE <<[SourcePage |-> LinkKeySource(k).n - 1,
                   X |-> Atoi(parts[1]).n, Y |-> Atoi(parts[2]).n,
                   W |-> Atoi(parts[3]).n, H |-> Atoi(parts[4]).n,
                   DestPage |-> Atoi(linkMap["OBJPAGE"]).n - 1,
                   SameFile |-> fileID # ""
                                /\ Lookup(linkMap, "LINKFILEID") = fileID]>>

\* parseLinks over the footer keys in the order the map iteration yields.
RECURSIVE parseLinks(_, _, _, _)
parseLinks(file, footerMap, fileID, order) ==
  IF order = <<>> THEN <<>>
  ELSE LinkOfKey(file, footerMap, fileID, order[1])
         \o parseLinks(file, footerMap, fileID, Tail(order))

\* The orders in which a range over a map with these keys can run.
KeyOrders(keys) ==
  {o \in [1..Cardinality(keys) -> keys] :
     \A i, j \in 1..Cardinality(keys) : i # j => o[i] # o[j]}

\* A file that does not open.
NoFile ==
  [openable |-> FALSE, sigOK |-> FALSE, footerAddrOK |-> FALSE,
   footerAddr |-> 0, blocks |-> <<>>]

\* The frame of ParseNotebook on entry.
NbFrame(file) ==
  [file |-> file, footerMap |-> <<>>, hasHeader |-> FALSE, fileID |-> "",
   dims |-> [width |-> 0, height |-> 0, ppi |-> 0],
   pageEntries |-> <<>>, i |-> 0, pages |-> <<>>, links |-> <<>>,
   order |-> <<>>, ret |-> "none", failed |-> "none", pc |-> "open"]

NbIdle == [NbFrame(NoFile) EXCEPT !.pc = "idle"]

NbFail(what) == [nb EXCEPT !.ret = "error", !.failed = what, !.pc = "failed"]

\* ParseNotebook up to the page loop (go.mod:182-234).
NbOpen ==
  /\ nb.pc = "open"
  /\ nb' = IF ~nb.file.openable THEN NbFail("open")
           ELSE IF ~nb.file.sigOK THEN NbFail("signature")
           ELSE IF ~nb.file.footerAddrOK THEN NbFail("footer address")
           ELSE LET r == ReadBlock(nb.file, nb.file.footerAddr)
                    d == detectDeviceDimensions(nb.file, r.map)
                    entries == SortByIndex(PageEntrySet(r.map))
                IN  IF r.err THEN NbFail("footer")
                    ELSE [nb EXCEPT
                            !.footerMap = r.map,
                            !.dims = d.dims,
                            !.hasHeader = d.hasHeader,
                            !.fileID = IF d.hasHeader
                                       THEN Lookup(d.headerMap, "FILE_ID") ELSE "",
                            !.pageEntries = entries,
                            !.pc = IF entries = <<>> THEN "links" ELSE "pages"]
  /\ UNCHANGED OtherThanNb

\* One turn of the page loop (go.mod:237-277).
NbPage ==
  /\ nb.pc = "pages"
  /\ LET pe == nb.pageEntries[nb.i + 1]
         r == ReadBlock(nb.file, pe.addr)
         layerOrder == IF "LAYERSEQ" \in DOMAIN r.map
                       THEN SplitComma(r.map["LAYERSEQ"])
                       ELSE defaultLayerOrder
     IN  nb' = IF r.err THEN NbFail("page")
               ELSE [nb EXCEPT
                       !.pages = Append(@, [Addr |-> pe.addr,
                                            Layers |-> PageLayers(nb.file, r.map,
                                                                  layerOrder),
                                            Number |-> pe.index]),
                       !.i = nb.i + 1,
                       !.pc = IF nb.i + 1 = Len(nb.pageEntries) THEN "links"
                              ELSE "pages"]
  /\ UNCHANGED OtherThanNb

\* parseLinks and the return (go.mod:279-289): the range over footerMap runs
\* in an order the runtime chooses.
NbLinks ==
  /\ nb.pc = "links"
  /\ \E order \in KeyOrders(DOMAIN nb.footerMap \cap LinkKeys) :
       nb' = [nb EXCEPT
                !.order = order,
                !.links = parseLinks(nb.file, nb.footerMap, nb.fileID, order),
                !.ret = "ok",
                !.pc = "done"]
  /\ UNCHANGED OtherThanNb

\* A readable block holding map m, and a block that cannot be read.
Block(m) == [readable |-> TRUE, map |-> m]
Unreadable == [readable |-> FALSE, map |-> EmptyMap]

\* The header: absent from the footer, unreadable, a Nomad, a Manta.
HeaderKinds == {"absent", "unreadable", "nomad", "manta"}

HeaderEntry(kind) ==
  IF kind = "absent" THEN EmptyMap ELSE "FILE_FEATURE" :> ToString(HeaderAddr)

HeaderBlocks(kind) ==
  CASE kind = "absent" -> EmptyMap
    [] kind = "unreadable" -> HeaderAddr :> Unreadable
    [] kind = "nomad" -> HeaderAddr :> Block("FILE_ID" :> "F1")
    [] kind = "manta" ->
         HeaderAddr :> Block(("APPLY_EQUIPMENT" :> "N5") @@ ("FILE_ID" :> "F1"))

\* Page n: its block unreadable; one readable main layer in the default
\* order; a LAYERSEQ naming a main layer whose block is unreadable and a
\* background layer whose bitmap address is no numeral.
NotePageKinds == {"unreadable", "good", "seq"}

PageBlocks(n, kind) ==
  CASE kind = "unreadable" -> PageAddr(n) :> Unreadable
    [] kind = "good" ->
         (PageAddr(n) :> Block("MAINLAYER" :> ToString(LayerAddr(n))))
           @@ (LayerAddr(n) :> Block(("LAYERPROTOCOL" :> "RATTA_RLE")
                                       @@ ("LAYERTYPE" :> "BITMAP")
                                       @@ ("LAYERBITMAP" :> ToString(BitmapAddr))))
    [] kind = "seq" ->
         (PageAddr(n) :> Block(("LAYERSEQ" :> "MAINLAYER,BGLAYER")
                                 @@ ("MAINLAYER" :> ToString(LayerAddr(n)))
                                 @@ ("BGLAYER" :> ToString(LayerAddr(n) + 1))
                                 @@ ("LAYER1" :> "junk")))
           @@ (LayerAddr(n) :> Unreadable)
           @@ ((LayerAddr(n) + 1) :> Block("LAYERBITMAP" :> "junk"))

\* Link n: its block unreadable; a link of this file to page 1; one to page
\* 2; a link of this file past the last page; a rectangle of three numbers;
\* a link into another file.
NoteLinkKinds == {"unreadable", "good", "second", "past", "badrect", "otherfile"}

LinkBlocks(n, kind) ==
  CASE kind = "unreadable" -> LinkBlockAddr(n) :> Unreadable
    [] kind = "good" ->
         LinkBlockAddr(n) :> Block(("LINKRECT" :> "1,2,3,4") @@ ("OBJPAGE" :> "1")
                                     @@ ("LINKFILEID" :> "F1"))
    [] kind = "second" ->
         LinkBlockAddr(n) :> Block(("LINKRECT" :> "1,2,3,4") @@ ("OBJPAGE" :> "2")
                                     @@ ("LINKFILEID" :> "F1"))
    [] kind = "past" ->
         LinkBlockAddr(n) :> Block(("LINKRECT" :> "1,2,3,4")
                                     @@ ("OBJPAGE" :> ToString(MaxFooterPages + 2))
                                     @@ ("LINKFILEID" :> "F1"))
    [] kind = "badrect" ->
         LinkBlockAddr(n) :> Block(("LINKRECT" :> "1,2,3") @@ ("OBJPAGE" :> "1")
                                     @@ ("LINKFILEID" :> "F1"))
    [] kind = "otherfile" ->
         LinkBlockAddr(n) :> Block(("LINKRECT" :> "1,2,3,4") @@ ("OBJPAGE" :> "1")
                                     @@ ("LINKFILEID" :> "F2"))

RECURSIVE PagesPart(_, _)
PagesPart(kinds, n) ==
  IF n = 0 THEN [footer |-> EmptyMap, blocks |-> EmptyMap]
  ELSE LET rest == PagesPart(kinds, n - 1)
       IN  [footer |-> (PageKey(n) :> ToString(PageAddr(n))) @@ rest.footer,
            blocks |-> PageBlocks(n, kinds[n]) @@ rest.blocks]

RECURSIVE LinksPart(_, _)
LinksPart(kinds, n) ==
  IF n = 0 THEN [footer |-> EmptyMap, blocks |-> EmptyMap]
  ELSE LET rest == LinksPart(kinds, n - 1)
       IN  [footer |-> (LinkKey(n) :> ToString(LinkBlockAddr(n))) @@ rest.footer,
            blocks |-> LinkBlocks(n, kinds[n]) @@ rest.blocks]

\* A file that opens, with a readable footer.
NoteFile(header, pageKinds, linkKinds, extra) ==
  LET pp == PagesPart(pageKinds, Len(pageKinds))
      lp == LinksPart(linkKinds, Len(linkKinds))
  IN  [openable |-> TRUE, sigOK |-> TRUE, footerAddrOK |-> TRUE,
       footerAddr |-> FooterAddr,
       blocks |-> (FooterAddr :> Block(HeaderEntry(header) @@ pp.footer
                                         @@ lp.footer @@ extra))
                    @@ HeaderBlocks(header) @@ pp.blocks @@ lp.blocks]

SeqsUpTo(S, n) == UNION {[1..k -> S] : k \in 0..n}

\* Footer entries that are no page and no link: a PAGE key without a number,
\* a page whose address is no numeral, LINKO_ keys that are too short or
\* carry no source page.
OddEntries ==
  ("PAGESTYLE" :> "0") @@ (PageKey(MaxFooterPages + 1) :> "junk")
    @@ ("LINKO_x" :> ToString(LinkBlockAddr(1)))
    @@ ("LINKO_00x10004" :> ToString(LinkBlockAddr(1)))

WellFormedFiles ==
  {NoteFile(h, pk, lk, EmptyMap) :
     h \in HeaderKinds, pk \in SeqsUpTo(NotePageKinds, MaxFooterPages),
     lk \in SeqsUpTo(NoteLinkKinds, MaxFooterLinks)}

OddFiles ==
  {NoteFile("nomad", <<"good">>, <<k>>, OddEntries) : k \in {"good", "unreadable"}}

\* The files whose open, signature, footer address or footer block fails.
BrokenFiles ==
  LET f == NoteFile("nomad", <<"good">>, <<"good">>, EmptyMap)
  IN  {[f EXCEPT !.openable = FALSE],
       [f EXCEPT !.sigOK = FALSE],
       [f EXCEPT !.footerAddrOK = FALSE],
       [f EXCEPT !.blocks = (FooterAddr :> Unreadable) @@ f.blocks]}

NoteFiles == WellFormedFiles \cup OddFiles \cup BrokenFiles

(***************************************************************************)
(*                 Claims about ParseNotebook and parseLinks               *)
(***************************************************************************)

\* What can be read above the page blocks.
FooterReadable ==
  /\ nb.file.openable
  /\ nb.file.sigOK
  /\ nb.file.footerAddrOK
  /\ ~ReadBlock(nb.file, nb.file.footerAddr).err

\* The addresses of the blocks of the file that cannot be read.
UnreadableAt == {a \in DOMAIN nb.file.blocks : ~nb.file.blocks[a].readable}

\* C11: ParseNotebook returns an error only when the file cannot be opened,
\* the signature cannot be read, or the footer address or the footer block
\* cannot be read; no block below the footer makes it fail.
C11_FatalOnlyAboveThePages == nb.ret = "error" => ~FooterReadable

\* C11: a parse that fails although the file, its signature, its footer
\* address and its footer block are readable: the block of a page is not.
C11_UnreadablePageFails ==
  /\ nb.ret = "error"
  /\ nb.failed = "page"
  /\ FooterReadable
  /\ nb.pageEntries[nb.i + 1].addr \in UnreadableAt

\* C11, the part the code keeps: with every page block of the footer
\* readable, unreadable layer, link and header blocks do not fail the parse.
C11_DeeperBlocksDegrade ==
  (/\ nb.pc \in {"failed", "done"}
   /\ FooterReadable
   /\ \A k \in 1..Len(nb.pageEntries) : nb.pageEntries[k].addr \notin UnreadableAt)
    => nb.ret = "ok"

C11_DegradeWitness ==
  /\ nb.pc = "done"
  /\ HeaderAddr \in UnreadableAt
  /\ LayerAddr(1) \in UnreadableAt
  /\ LinkBlockAddr(1) \in UnreadableAt
  /\ nb.dims.width = NomadWidth
  /\ Len(nb.pages) = 1
  /\ nb.pages[1].Layers = <<>>
  /\ nb.links = <<>>

\* The annotation lines page i (0-based) of the document gets from a list of
\* links, as ConvertNoteToPDFVector builds them from the parsed notebook.
AnnotationBytes(links, i) ==
  LET scale == (PointsPerInch * Unit) \div nb.dims.ppi
  IN  AnnotLines(PageLinks(links, i, Len(nb.pages), scale, nb.dims.height * scale))

\* The links parseLinks returns when the range over the footer runs in order.
LinksInOrder(order) == parseLinks(nb.file, nb.footerMap, nb.fileID, order)

\* C16: conversion is deterministic: the links of the parsed notebook, and
\* with them the link annotations of every page, in their order, are the same
\* for every order in which the footer key map can be iterated.
C16_IndependentOfMapOrder ==
  nb.pc = "done" =>
    \A order \in KeyOrders(DOMAIN nb.footerMap \cap LinkKeys) :
      \A i \in 0..(Len(nb.pages) - 1) :
        AnnotationBytes(LinksInOrder(order), i) = AnnotationBytes(nb.links, i)

\* C16: one file, two runs: this run's range over the footer met the second
\* link of page 0 first, a run that meets the first link first writes the
\* annotations of page 0 in the other order.
C16_AnnotationOrderDiffers ==
  /\ nb.pc = "done"
  /\ Len(nb.pages) = 2
  /\ nb.order = <<LinkKey(2), LinkKey(1)>>
  /\ Len(nb.links) = 2
  /\ nb.links[1].DestPage = 1
  /\ nb.links[2].DestPage = 0
  /\ LinksInOrder(<<LinkKey(1), LinkKey(2)>>) = <<nb.links[2], nb.links[1]>>
  /\ AnnotationBytes(LinksInOrder(<<LinkKey(1), LinkKey(2)>>), 0)
       # AnnotationBytes(nb.links, 0)

(***************************************************************************)
(*                    Claims about the link annotations                    *)
(***************************************************************************)

\* The links of the notebook that start on page i (0-based), are links of
\* this document and lead to one of its pages, in the notebook's order.
RECURSIVE ValidLinksFrom(_, _)
ValidLinksFrom(links, i) ==
  IF links = <<>> THEN <<>>
  ELSE (IF /\ links[1].SourcePage = i
           /\ links[1].SameFile
           /\ 0 <= links[1].DestPage
           /\ links[1].DestPage < cv.totalPages
        THEN <<links[1]>> ELSE <<>>) \o ValidLinksFrom(Tail(links), i)

\* How often s occurs in data.
CountOf(data, s) == Cardinality({k \in 1..Len(data) : MatchAt(data, s, k)})

\* The annotation of a link as the page object holds it before the
\* placeholder pass.
AnnotationOf(nl) ==
  AnnotLines(<<PdfLink(nl, (PointsPerInch * Unit) \div NomadPPI, cv.pageHeightPt)>>)

RECURSIVE AnnotationsOf(_)
AnnotationsOf(links) ==
  IF links = <<>> THEN <<>>
  ELSE AnnotationOf(links[1]) \o AnnotationsOf(Tail(links))

\* The pages whose chunk is built, and those already through the placeholder
\* pass (1-based).
BuiltPages ==
  IF cv.mode # "note" THEN {}
  ELSE IF cv.pc = "alloc" THEN 1..cv.i
  ELSE IF cv.pc \in {"resolve", "create", "head", "objects", "trailer", "done"}
  THEN 1..cv.totalPages
  ELSE {}

ResolvedPages ==
  IF cv.mode # "note" THEN {}
  ELSE IF cv.pc = "resolve" THEN 1..cv.i
  ELSE IF Resolved THEN 1..cv.totalPages
  ELSE {}

\* The object numbers the /D arrays of data refer to.
DestObjects(data) ==
  {NumberAt(data, k + Len(sFitDest)) :
     k \in {j \in 1..Len(data) : MatchAt(data, sFitDest, j)}}

\* C12: every link annotation of a page object comes from a link of that page
\* whose same-document flag is true and whose destination d has
\* 0 <= d < total pages, the other links are dropped without touching those,
\* and no placeholder and no reference names a page that does not exist.
C12_OnlyValidLinksAnnotated ==
  \A i \in BuiltPages :
    LET data == cv.chunks[i][1].data
        valid == ValidLinksFrom(cv.links, i - 1)
    IN  /\ CountOf(data, sAnnotRect) = Len(valid)
        /\ CountOf(data, sFitDest) = Len(valid)
        /\ i \notin ResolvedPages =>
             /\ valid # <<>> => Contains(data, AnnotationsOf(valid))
             /\ CountOf(data, sPlaceholder) = Len(valid)
        /\ i \in ResolvedPages =>
             DestObjects(data) \subseteq {cv.pageObjIDs[k] : k \in 1..cv.totalPages}

\* A page with a link past the last page, a link into another file and a
\* good link, built and resolved: one annotation, to the last page.
C12_Witness ==
  /\ Written
  /\ cv.mode = "note"
  /\ cv.totalPages >= 2
  /\ Len(cv.links) = 3
  /\ cv.links[1].DestPage = cv.totalPages
  /\ ~cv.links[2].SameFile
  /\ CountOf(cv.chunks[1][1].data, sAnnotRect) = 1
  /\ DestObjects(cv.chunks[1][1].data) = {cv.pageObjIDs[cv.totalPages]}

(***************************************************************************)
(*                         rle.go : BuildPalette                           *)
(* A colour of the configuration is its text, a sequence of bytes.  A      *)
(* palette entry holds, for each channel, the set of the bytes the float64 *)
(* arithmetic of the interpolation can leave there: one byte, except where *)
(* the real value of start + f*(end-start) is a whole number n strictly    *)
(* inside a segment.  There f = (j-start.pos)/dist is a rounded quotient   *)
(* and the product can come out as n or just below it, so that byte() of   *)
(* it is n or n-1 (for anchors 0 and 157, code 7 gets 6); both are kept.   *)
(***************************************************************************)

\* The codes of the anchors after the first (rle.go:22-25).
DarkGrayCode == 157
LightGrayCode == 201
WhiteCode == 255

\* The marker opacity used when the configured one gives 0 (rle.go:50).
DefaultMarkerAlpha == 38

HexDigits ==
  <<"0", "1", "2", "3", "4", "5", "6", "7", "8", "9", "a", "b", "c", "d", "e", "f">>
UpperHexDigits ==
  <<"0", "1", "2", "3", "4", "5", "6", "7", "8", "9", "A", "B", "C", "D", "E", "F">>

\* The value of a hexadecimal digit, -1 for another byte.
HexDigit(c) ==
  IF \E d \in 1..16 : HexDigits[d] = c
  THEN (CHOOSE d \in 1..16 : HexDigits[d] = c) - 1
  ELSE IF \E d \in 1..16 : UpperHexDigits[d] = c
  THEN (CHOOSE d \in 1..16 : UpperHexDigits[d] = c) - 1
  ELSE -1

\* strings.TrimPrefix(hex, "#")
TrimHash(hex) == IF hex # <<>> /\ hex[1] = "#" THEN Tail(hex) ELSE hex

\* parseHexColor (part_000:101-115): r, g, b, and 0, 0, 0 on an error, which
\* BuildPalette ignores.
parseHexColor(text) ==
  LET hex == TrimHash(text)
  IN  IF Len(hex) # 6 THEN <<0, 0, 0>>
      ELSE IF \E k \in 1..6 : HexDigit(hex[k]) < 0 THEN <<0, 0, 0>>
      ELSE [c \in 1..3 |-> 16 * HexDigit(hex[2 * c - 1]) + HexDigit(hex[2 * c])]

\* The anchors (rle.go:18-26).
PaletteAnchors(cfg) ==
  <<[pos |-> 0, rgb |-> parseHexColor(cfg.Black)],
    [pos |-> DarkGrayCode, rgb |-> parseHexColor(cfg.DarkGray)],
    [pos |-> LightGrayCode, rgb |-> parseHexColor(cfg.LightGray)],
    [pos |-> WhiteCode, rgb |-> parseHexColor(cfg.White)]>>

\* Faulty variant of Interpolate: the fraction runs from the end anchor.
Interpolate_FromEnd(s, e, k, dist) ==
  LET num == s * dist + (dist - k) * (e - s)
  IN  IF num % dist = 0 /\ k # 0 /\ k # dist /\ e # s
      THEN {(num \div dist) - 1, num \div dist}
      ELSE {num \div dist}

\* byte(float64(s) + f*float64(int(e)-int(s))) with f = float64(k)/float64(dist)
\* (rle.go:33-36): for k = 0, k = dist (f is 0 or 1) and for e = s the result
\* is exact.
Interpolate(s, e, k, dist) ==
  LET num == s * dist + k * (e - s)
  IN  IF num % dist = 0 /\ k # 0 /\ k # dist /\ e # s
      THEN {(num \div dist) - 1, num \div dist}
      ELSE {num \div dist}

\* Faulty variant of SegmentCodes: the end anchor is left out.
SegmentCodes_HalfOpen(start, end) == start.pos..(end.pos - 1)

\* The codes the inner loop of a segment writes (rle.go:32).
SegmentCodes(start, end) == start.pos..end.pos

\* One turn of the outer loop (rle.go:28-38).
FillSegment(colors, start, end) ==
  [j \in 0..WhiteCode |->
     IF j \in SegmentCodes(start, end)
     THEN [c \in 1..3 |-> Interpolate(start.rgb[c], end.rgb[c], j - start.pos,
                                      end.pos - start.pos)]
     ELSE colors[j]]

\* The assignments p.Colors[target] = p.Colors[source] in program order
\* (rle.go:44-47, 54-56, 63-66).
ColorAliases ==
  <<<<97, 0>>, <<99, DarkGrayCode>>, <<100, LightGrayCode>>, <<101, WhiteCode>>,
    <<102, 0>>, <<103, DarkGrayCode>>, <<104, LightGrayCode>>,
    <<157, DarkGrayCode>>, <<158, DarkGrayCode>>,
    <<201, LightGrayCode>>, <<202, LightGrayCode>>>>

\* The marker codes, which get the marker opacity (rle.go:58-60).
MarkerCodes == {102, 103, 104}

RECURSIVE ApplyAliases(_, _)
ApplyAliases(colors, aliases) ==
  IF aliases = <<>> THEN colors
  ELSE ApplyAliases([colors EXCEPT ![aliases[1][1]] = colors[aliases[1][2]]],
                    Tail(aliases))

\* byte(markerOpacity * 255) and its default (rle.go:49-52); the opacity is
\* the fraction num/den.
MarkerAlphaOf(opacity) ==
  LET m == (opacity.num * 255) \div opacity.den
  IN  IF m = 0 THEN DefaultMarkerAlpha ELSE m

\* A zeroed Palette (rle.go:11).
ZeroPalette ==
  [Colors |-> [j \in 0..WhiteCode |-> [c \in 1..3 |-> {0}]],
   Alphas |-> [j \in 0..WhiteCode |-> 0]]

\* The frame of BuildPalette on entry.
PalFrame(cfg, opacity) ==
  [cfg |-> cfg, markerOpacity |-> opacity, anchors |-> <<>>, i |-> 0,
   p |-> ZeroPalette, pc |-> "start"]

sBlack == <<"#", "0", "0", "0", "0", "0", "0">>
sDarkGray == <<"#", "9", "D", "9", "D", "9", "D">>
sLightGray == <<"#", "c", "9", "c", "9", "c", "9">>
sWhite == <<"#", "F", "F", "F", "F", "F", "F">>
sOrange == <<"F", "F", "8", "0", "0", "0">>
sNotAColor == <<"r", "e", "d">>

PalIdle ==
  [PalFrame([Black |-> <<>>, DarkGray |-> <<>>, LightGray |-> <<>>, White |-> <<>>],
            [num |-> 0, den |-> 1]) EXCEPT !.pc = "idle"]

\* rle.go:11-26
PalStart ==
  /\ pal.pc = "start"
  /\ pal' = [pal EXCEPT !.anchors = PaletteAnchors(pal.cfg), !.pc = "segments"]
  /\ UNCHANGED OtherThanPal

\* rle.go:28-38, one segment.
PalSegment ==
  /\ pal.pc = "segments"
  /\ pal' = [pal EXCEPT
               !.p.Colors = FillSegment(@, pal.anchors[pal.i + 1],
                                        pal.anchors[pal.i + 2]),
               !.i = pal.i + 1,
               !.pc = IF pal.i + 1 = Len(pal.anchors) - 1 THEN "aliases"
                      ELSE "segments"]
  /\ UNCHANGED OtherThanPal

\* rle.go:40-68
PalAliases ==
  /\ pal.pc = "aliases"
  /\ pal' = [pal EXCEPT
               !.p.Colors = ApplyAliases(@, ColorAliases),
               !.p.Alphas = [j \in 0..WhiteCode |->
                               IF j \in MarkerCodes
                               THEN MarkerAlphaOf(pal.markerOpacity)
                               ELSE Opaque],
               !.pc = "done"]
  /\ UNCHANGED OtherThanPal

\* The colours an anchor is configured with, the opacities of the markers.
AnchorTexts == {sBlack, sDarkGray, sLightGray, sWhite, sOrange}

ColorConfigs ==
  {[Black |-> b, DarkGray |-> dg, LightGray |-> lg, White |-> w] :
     b \in AnchorTexts, dg \in AnchorTexts, lg \in AnchorTexts, w \in AnchorTexts}

DefaultColors ==
  [Black |-> sBlack, DarkGray |-> sDarkGray, LightGray |-> sLightGray,
   White |-> sWhite]

MarkerOpacities == {[num |-> 0, den |-> 1], [num |-> 1, den |-> 5], [num |-> 1, den |-> 1]}

(***************************************************************************)
(*                        Claims about BuildPalette                        *)
(***************************************************************************)

\* The configured colour of each anchor code.
ConfiguredAnchors ==
  <<<<0, pal.cfg.Black>>, <<DarkGrayCode, pal.cfg.DarkGray>>,
    <<LightGrayCode, pal.cfg.LightGray>>, <<WhiteCode, pal.cfg.White>>>>

\* Entry code of the palette is exactly the colour rgb.
HoldsExactly(code, rgb) ==
  \A c \in 1..3 : pal.p.Colors[code][c] = {rgb[c]}

\* C13: the palette maps codes 0, 157, 201 and 255 to exactly the configured
\* black, dark-gray, light-gray and white: an anchor code holds its colour
\* from the segment that first reaches it on, through the next segment and
\* through the alias assignments.
C13_AnchorsExact ==
  pal.pc \in {"segments", "aliases", "done"} =>
    \A a \in 1..4 :
      (pal.pc = "done" \/ (pal.i >= 1 /\ a <= pal.i + 1)) =>
        HoldsExactly(ConfiguredAnchors[a][1], parseHexColor(ConfiguredAnchors[a][2]))

\* A finished palette with four different anchors, one of them coloured.
C13_Witness ==
  /\ pal.pc = "done"
  /\ pal.cfg.Black = sDarkGray
  /\ pal.cfg.DarkGray = sOrange
  /\ pal.cfg.LightGray = sBlack
  /\ pal.cfg.White = sLightGray
  /\ pal.p.Colors[DarkGrayCode] = <<{255}, {128}, {0}>>
  /\ pal.p.Colors[WhiteCode] = <<{201}, {201}, {201}>>

\* Channel c of the palette does not decrease (sign = 1) or does not increase
\* (sign = -1) from code j to code k, whatever the rounding.
Ordered(j, k, c, sign) ==
  \A x \in pal.p.Colors[j][c], y \in pal.p.Colors[k][c] : sign * x <= sign * y

\* The codes that follow j in codes with no code of codes in between; the
\* codes left out of an interval are never more than 6 in a row.
Following(codes, j) ==
  LET later == {k \in (j + 1)..(j + 8) : k \in codes}
  IN  {k \in later : \A m \in later : k <= m}

\* Channel c is monotonic between anchors a and a + 1 over the given codes:
\* each code is in order with the one that follows it.
MonotonicOver(a, c, codes) ==
  LET first == parseHexColor(ConfiguredAnchors[a][2])[c]
      second == parseHexColor(ConfiguredAnchors[a + 1][2])[c]
  IN  /\ first <= second =>
           \A j \in codes : \A k \in Following(codes, j) : Ordered(j, k, c, 1)
      /\ first >= second =>
           \A j \in codes : \A k \in Following(codes, j) : Ordered(j, k, c, -1)

SegmentInterval(a) == ConfiguredAnchors[a][1]..ConfiguredAnchors[a + 1][1]

\* The codes between two anchors that the alias assignments give the colour
\* of another anchor or of the far end: 0x61 and 0x63..0x68.
PenCodes == {97, 99, 100, 101, 102, 103, 104}

\* C14 as stated: in the returned palette every channel is monotonic over
\* every code of the closed interval between two adjacent anchors.
C14_MonotonicOverInterval ==
  pal.pc = "done" =>
    \A a \in 1..3, c \in 1..3 : MonotonicOver(a, c, SegmentInterval(a))

\* C14: in the returned palette every channel is monotonic between two
\* adjacent anchors over the codes of the closed interval other than the pen
\* codes 0x61 and 0x63..0x68, and after each segment of the interpolation
\* over all of its codes.
C14_MonotonicOffPenCodes ==
  /\ pal.pc = "done" =>
       \A a \in 1..3, c \in 1..3 : MonotonicOver(a, c, SegmentInterval(a) \ PenCodes)
  /\ pal.pc \in {"segments", "aliases"} =>
       \A a \in 1..pal.i, c \in 1..3 : MonotonicOver(a, c, SegmentInterval(a))

\* A finished palette whose red channel falls to code 157 and rises from it,
\* with the pen code 0x61 back at the colour of code 0.
C14_Witness ==
  /\ pal.pc = "done"
  /\ pal.cfg.Black = sWhite
  /\ pal.cfg.DarkGray = sBlack
  /\ pal.cfg.LightGray = sOrange
  /\ pal.p.Colors[96][1] = {99}
  /\ pal.p.Colors[97][1] = {255}
  /\ pal.p.Colors[98][1] = {95}
  /\ pal.p.Colors[179][1] = {127}

(***************************************************************************)
(*                       main.go : processDirectory                        *)
(* The job loop of processDirectory and its goroutines.  A job is given by *)
(* what its calls return: whether os.MkdirAll fails and whether the        *)
(* conversion returns an error.                                            *)
(***************************************************************************)

\* Bound: jobs of a directory.
MaxJobs == 3

JobOutcomes == {"ok", "mkdir fails", "convert fails"}

\* cap(errCh) (main.go:202).
ErrChCap_One(jobs) == 1

ErrChCap(jobs) == Len(jobs)

\* convJob{input, output, companionPDF} (main.go:161, 174); a path is the
\* sequence of the parts of its name between the dots.
Job(input, output, companionPDF) == [input |-> input, output |-> output, companionPDF |-> companionPDF]

\* The names of the notes of a directory without mark files.
JobNames == <<"1", "2", "3", "4">>

\* The frame of processDirectory once the directory is walked; walked holds
\* the jobs as the walk made them, here one note of its own name for each.
DirFrame(jobs, numSkipped) ==
  [jobs |-> jobs, numSkipped |-> numSkipped, i |-> 0,
   walked |-> [k \in 1..Len(jobs) |-> Job(<<JobNames[k], "note">>, <<JobNames[k], "pdf">>, <<>>)],
   task |-> [k \in 1..Len(jobs) |-> "not started"],
   sem |-> 0, wg |-> 0, completed |-> 0, errCh |-> <<>>, closed |-> FALSE,
   stdout |-> {}, stderr |-> <<>>, ret |-> "none", pc |-> "check"]

DirIdle == [DirFrame(<<>>, 0) EXCEPT !.pc = "idle"]

\* main.go:181-201: the returns without work, the channels.
DirCheck ==
  /\ dir.pc = "check"
  /\ dir' = IF Len(dir.jobs) = 0
            THEN [dir EXCEPT !.ret = "nil", !.pc = "returned"]
            ELSE [dir EXCEPT !.pc = "spawn"]
  /\ UNCHANGED OtherThanDir

\* main.go:205-207: wg.Add(1), then sem <- struct{}{}, which blocks while the
\* semaphore is full, then the goroutine of the job starts.  Only this
\* goroutine reads the wait group, so the Add is taken with the send.
DirSpawn ==
  /\ dir.pc = "spawn"
  /\ dir.sem < GoMaxProcs
  /\ dir' = [dir EXCEPT
               !.wg = dir.wg + 1,
               !.sem = dir.sem + 1,
               !.task[dir.i + 1] = "mkdir",
               !.i = dir.i + 1,
               !.pc = IF dir.i + 1 = Len(dir.jobs) THEN "wait" ELSE "spawn"]
  /\ UNCHANGED OtherThanDir

\* errCh <- msg blocks while the channel is full.
CanSend == Len(dir.errCh) < ErrChCap(dir.jobs)

\* main.go:209-214: the output directory.
WorkMkdir(k) ==
  /\ k \in DOMAIN dir.task
  /\ dir.task[k] = "mkdir"
  /\ IF dir.jobs[k] = "mkdir fails"
     THEN /\ CanSend
          /\ dir' = [dir EXCEPT !.errCh = Append(@, k), !.task[k] = "release"]
     ELSE dir' = [dir EXCEPT !.task[k] = "convert"]
  /\ UNCHANGED OtherThanDir

\* main.go:215-225: the conversion, its error, and the progress line, which
\* is printed after a failed conversion too (stdout holds the jobs it was
\* printed for).
WorkConvert(k) ==
  /\ k \in DOMAIN dir.task
  /\ dir.task[k] = "convert"
  /\ dir.jobs[k] = "convert fails" => CanSend
  /\ dir' = [dir EXCEPT
               !.errCh = IF dir.jobs[k] = "convert fails" THEN Append(@, k) ELSE @,
               !.completed = dir.completed + 1,
               !.stdout = dir.stdout \cup {k},
               !.task[k] = "release"]
  /\ UNCHANGED OtherThanDir

\* main.go:208: the deferred <-sem
WorkRelease(k) ==
  /\ k \in DOMAIN dir.task
  /\ dir.task[k] = "release"
  /\ dir.sem > 0
  /\ dir' = [dir EXCEPT !.sem = dir.sem - 1, !.task[k] = "wg.Done"]
  /\ UNCHANGED OtherThanDir

\* main.go:208: the deferred wg.Done()
WorkDone(k) ==
  /\ k \in DOMAIN dir.task
  /\ dir.task[k] = "wg.Done"
  /\ dir' = [dir EXCEPT !.wg = dir.wg - 1, !.task[k] = "finished"]
  /\ UNCHANGED OtherThanDir

Worker(k) == WorkMkdir(k) \/ WorkConvert(k) \/ WorkRelease(k) \/ WorkDone(k)

\* main.go:228-229: wg.Wait() and close(errCh)
DirWait ==
  /\ dir.pc = "wait"
  /\ dir.wg = 0
  /\ dir' = [dir EXCEPT !.closed = TRUE, !.pc = "drain"]
  /\ UNCHANGED OtherThanDir

\* main.go:231-237: every message of the closed channel goes to stderr, then
\* return nil; no other goroutine is left to run.
DirDrain ==
  /\ dir.pc = "drain"
  /\ dir' = [dir EXCEPT !.stderr = dir.errCh, !.errCh = <<>>, !.ret = "nil",
                         !.pc = "returned"]
  /\ UNCHANGED OtherThanDir

DirMain == DirCheck \/ DirSpawn \/ DirWait \/ DirDrain

JobLists == UNION {[1..n -> JobOutcomes] : n \in 0..MaxJobs}

(***************************************************************************)
(*                      Claims about processDirectory                      *)
(***************************************************************************)

\* The jobs whose directory or conversion fails.
FailingJobs == {k \in 1..Len(dir.jobs) : dir.jobs[k] # "ok"}

\* The jobs whose conversion is called.
ConvertedJobs == {k \in 1..Len(dir.jobs) : dir.jobs[k] # "mkdir fails"}

\* What processDirectory leaves behind when it returns: every goroutine has
\* run to its end, every failing job has one message on stderr and no other
\* job has one, every job that got its directory went through its conversion,
\* the semaphore and the channel are empty.
AllJobsDoneAndReported ==
  /\ dir.ret = "nil"
  /\ \A k \in 1..Len(dir.jobs) : dir.task[k] = "finished"
  /\ {dir.stderr[n] : n \in 1..Len(dir.stderr)} = FailingJobs
  /\ Len(dir.stderr) = Cardinality(FailingJobs)
  /\ dir.stdout = ConvertedJobs
  /\ dir.completed = Cardinality(ConvertedJobs)
  /\ dir.sem = 0
  /\ dir.wg = 0
  /\ dir.errCh = <<>>

\* C15: processDirectory always returns, after all jobs have finished, with
\* every failing job reported and every other job run: no goroutine stays
\* blocked on the semaphore or on the error channel.
C15_ReturnsWithEveryJobRun ==
  /\ [](dir.pc = "returned" => AllJobsDoneAndReported)
  /\ (dir.pc = "check") ~> (dir.pc = "returned")

\* More jobs than semaphore slots; the first two fail, the third does not,
\* and the second failure is reported before the first.
C15_Witness ==
  /\ dir.pc = "returned"
  /\ dir.jobs = <<"convert fails", "mkdir fails", "ok">>
  /\ Len(dir.jobs) > GoMaxProcs
  /\ dir.stderr = <<2, 1>>
  /\ dir.completed = 2

(***************************************************************************)
(*       vector.go : renderContentColorLayers, renderBGLayerRGB and       *)
(*                  the paint order of the content stream                  *)
(* A layer is given by what decoding its bitmap yields: for RATTA_RLE the  *)
(* colour code of each pixel (0x62 where the stream is transparent), for   *)
(* PNG whether each pixel is opaque and dark.  The tracing oracle returns, *)
(* for a mask, the set of its foreground pixels as the traced area.  Each  *)
(* pixel of the code map also remembers the layer that wrote it.           *)
(***************************************************************************)

\* Bound: pixels of a page.
LayPixels == 2

\* Bound: layers of a page.
MaxLayers == 2

\* The colour codes of the layers: pen black, marker black, the alternate
\* dark gray of the templates.
PenBlack == 97
MarkerBlack == 102
TemplateGray == 157

\* canonicalGroup (vector.go:28-47).
canonicalGroup(code) ==
  CASE code \in {0, 97} -> 0
    [] code \in {99, 157, 158} -> 1
    [] code \in {100, 201, 202} -> 2
    [] code \in {98, 101, 254, 255} -> 3
    [] code = 102 -> 4
    [] code = 103 -> 5
    [] code = 104 -> 6
    [] OTHER -> -1

\* groupPaletteIdx (vector.go:120), 0-based group.
groupPaletteIdx == <<0, 157, 201, 255, 102, 103, 104>>

\* The alpha of a palette index in the palette of ConvertNoteToPDFVector.
PaletteAlpha(idx) == IF idx \in MarkerCodes THEN MarkerAlpha ELSE Opaque

Pixels == 1..LayPixels

\* The frame of renderPage's work on one page and of the content stream
\* built from it.
LayFrame(layers, noBg, traceOK) ==
  [layers |-> layers, noBg |-> noBg, traceOK |-> traceOK, i |-> 0,
   codeMap |-> [x \in Pixels |-> 0], owner |-> [x \in Pixels |-> 0],
   pngLayers |-> <<>>, masks |-> [g \in 0..6 |-> {}], made |-> {},
   colorLayers |-> <<>>, hasBG |-> FALSE,
   bgRGB |-> [x \in Pixels |-> 0], bgOwner |-> 0,
   paint |-> <<>>, err |-> FALSE, pc |-> "start"]

LayIdle == [LayFrame(<<>>, FALSE, TRUE) EXCEPT !.pc = "idle"]

\* vector.go:57-72: the code map filled with 0xFF.
LayStart ==
  /\ lay.pc = "start"
  /\ lay' = [lay EXCEPT !.codeMap = [x \in Pixels |-> Background],
                        !.pc = IF lay.layers = <<>> THEN "masks" ELSE "decode"]
  /\ UNCHANGED OtherThanLay

\* Faulty variant of WriteCodes: transparent runs are written too.
WriteCodes_Transparent(codeMap, codes) == codes

\* decodeRLEToCodeMap: the runs that are not transparent are written.
WriteCodes(codeMap, codes) ==
  [x \in Pixels |-> IF codes[x] # Transparent THEN codes[x] ELSE codeMap[x]]

\* vector.go:74-94: one turn of the layer loop.
LayDecode ==
  /\ lay.pc = "decode"
  /\ LET n == lay.i + 1
         layer == lay.layers[n]
         next == IF n = Len(lay.layers) THEN "masks" ELSE "decode"
     IN  lay' = IF layer.BitmapAddress = 0 \/ layer.Key = "BGLAYER"
                THEN [lay EXCEPT !.i = n, !.pc = next]
                ELSE IF layer.Protocol \in {"RATTA_RLE", "PNG"} /\ ~layer.readable
                THEN [lay EXCEPT !.err = TRUE, !.pc = "failed"]
                ELSE IF layer.Protocol = "RATTA_RLE"
                THEN [lay EXCEPT
                        !.codeMap = WriteCodes(@, layer.codes),
                        !.owner = [x \in Pixels |->
                                     IF layer.codes[x] # Transparent THEN n
                                     ELSE lay.owner[x]],
                        !.i = n, !.pc = next]
                ELSE IF layer.Protocol = "PNG"
                THEN [lay EXCEPT
                        !.pngLayers = Append(@, [dark |-> layer.dark, layer |-> n]),
                        !.i = n, !.pc = next]
                ELSE [lay EXCEPT !.i = n, !.pc = next]
  /\ UNCHANGED OtherThanLay

\* vector.go:96-110: the mask of each group, a set of foreground pixels,
\* and the groups whose mask was made: a mask is made when the loop meets
\* the first pixel of a group other than white.
LayMasks ==
  /\ lay.pc = "masks"
  /\ lay' = [lay EXCEPT
               !.masks = [g \in 0..6 |->
                            IF g = 3 THEN {}
                            ELSE {x \in Pixels : canonicalGroup(lay.codeMap[x]) = g}],
               !.made = {canonicalGroup(lay.codeMap[x]) : x \in Pixels} \ {-1, 3},
               !.pc = "trace"]
  /\ UNCHANGED OtherThanLay

\* The layers of the groups g..6 (vector.go:122-146).
RECURSIVE GroupLayers(_, _)
GroupLayers(masks, g) ==
  IF g > 6 THEN <<>>
  ELSE (IF g = 3 \/ masks[g] = {} THEN <<>>
        ELSE <<[idx |-> groupPaletteIdx[g + 1],
                alpha |-> PaletteAlpha(groupPaletteIdx[g + 1]),
                paths |-> masks[g], png |-> 0]>>)
         \o GroupLayers(masks, g + 1)

\* The layers of the PNG layers (vector.go:148-177).
RECURSIVE PngColorLayers(_)
PngColorLayers(pngLayers) ==
  IF pngLayers = <<>> THEN <<>>
  ELSE (IF pngLayers[1].dark = {} THEN <<>>
        ELSE <<[idx |-> 0, alpha |-> Opaque, paths |-> pngLayers[1].dark,
                png |-> pngLayers[1].layer]>>)
         \o PngColorLayers(Tail(pngLayers))

\* vector.go:112-193: tracing, the marker sort, the return.
LayTrace ==
  /\ lay.pc = "trace"
  /\ LET traced == GroupLayers(lay.masks, 0) \o PngColorLayers(lay.pngLayers)
         asked == \E g \in 0..6 : lay.masks[g] # {} \/ lay.pngLayers # <<>>
     IN  lay' = IF asked /\ ~lay.traceOK
                THEN [lay EXCEPT !.err = TRUE, !.pc = "failed"]
                ELSE [lay EXCEPT !.colorLayers = SortMarkersFirst(traced),
                                 !.pc = "background"]
  /\ UNCHANGED OtherThanLay

\* renderBGLayerRGB over the layers from n on: the raster and the last
\* BGLAYER that wrote to it.
RECURSIVE BgRaster(_, _, _, _)
BgRaster(layers, n, rgb, last) ==
  IF n > Len(layers) THEN [rgb |-> rgb, last |-> last]
  ELSE IF layers[n].Key # "BGLAYER" \/ layers[n].BitmapAddress = 0
          \/ layers[n].Protocol # "RATTA_RLE"
  THEN BgRaster(layers, n + 1, rgb, last)
  ELSE BgRaster(layers, n + 1, WriteCodes(rgb, layers[n].codes),
                IF \E x \in Pixels : layers[n].codes[x] # Transparent
                THEN n ELSE last)

\* vector.go:562-577 and 196-235: the background raster, dropped when it is
\* all white.
LayBackground ==
  /\ lay.pc = "background"
  /\ LET bg == BgRaster(lay.layers, 1, [x \in Pixels |-> Background], 0)
         allWhite == \A x \in Pixels : canonicalGroup(bg.rgb[x]) = 3
     IN  lay' = IF lay.noBg \/ allWhite THEN [lay EXCEPT !.pc = "content"]
                ELSE [lay EXCEPT !.hasBG = TRUE, !.bgRGB = bg.rgb,
                                 !.bgOwner = bg.last, !.pc = "content"]
  /\ UNCHANGED OtherThanLay

\* The drawing operations of the colour layers, in order (vector.go:306-330).
RECURSIVE LayerPaints(_)
LayerPaints(colorLayers) ==
  IF colorLayers = <<>> THEN <<>>
  ELSE (IF colorLayers[1].paths = {} THEN <<>>
        ELSE <<[kind |-> "fill", pixels |-> colorLayers[1].paths,
                idx |-> colorLayers[1].idx, alpha |-> colorLayers[1].alpha,
                png |-> colorLayers[1].png]>>)
         \o LayerPaints(Tail(colorLayers))

\* vector.go:292-330: the content stream: the image, then the layers.
LayContent ==
  /\ lay.pc = "content"
  /\ lay' = [lay EXCEPT
               !.paint = (IF lay.hasBG
                          THEN <<[kind |-> "image", pixels |-> Pixels, idx |-> 0,
                                  alpha |-> Opaque, png |-> 0]>>
                          ELSE <<>>) \o LayerPaints(lay.colorLayers),
               !.pc = "done"]
  /\ UNCHANGED OtherThanLay

\* The layers of the model pages.
RleLayer(key, codes) ==
  [Key |-> key, Protocol |-> "RATTA_RLE", BitmapAddress |-> BitmapAddr,
   readable |-> TRUE, codes |-> codes, dark |-> {}]

PngLayer(key, dark) ==
  [Key |-> key, Protocol |-> "PNG", BitmapAddress |-> BitmapAddr,
   readable |-> TRUE, codes |-> [x \in Pixels |-> Transparent], dark |-> dark]

AllOf(code) == [x \in Pixels |-> code]
FirstOnly(code) == [x \in Pixels |-> IF x = 1 THEN code ELSE Transparent]

\* A content layer: ink or marker on every pixel, ink on the first pixel,
\* nothing, a dark image, one that cannot be read, one without a bitmap.
ContentLayers(key) ==
  {RleLayer(key, AllOf(PenBlack)), RleLayer(key, AllOf(MarkerBlack)),
   RleLayer(key, FirstOnly(PenBlack)), RleLayer(key, AllOf(Transparent)),
   PngLayer(key, Pixels), PngLayer(key, {1}),
   [RleLayer(key, AllOf(PenBlack)) EXCEPT !.readable = FALSE],
   [RleLayer(key, AllOf(PenBlack)) EXCEPT !.BitmapAddress = 0]}

\* A background layer: a gray template, an empty one.
BackgroundLayers ==
  {RleLayer("BGLAYER", AllOf(TemplateGray)), RleLayer("BGLAYER", AllOf(Transparent))}

ModelLayers == BackgroundLayers \cup ContentLayers("MAINLAYER") \cup ContentLayers("LAYER1")

\* The pages: up to MaxLayers layers with different keys, in any order.
LayerPages ==
  {p \in UNION {[1..n -> ModelLayers] : n \in 0..MaxLayers} :
     \A a, b \in 1..Len(p) : a # b => p[a].Key # p[b].Key}

(***************************************************************************)
(*                      Claims about the layer order                       *)
(***************************************************************************)

\* Layer n of the page has content at pixel x: its bitmap is there, and the
\* pixel holds a tone (run-length layer), is dark (image layer), or is
\* written at all (background layer).
HasContent(n, x) ==
  LET layer == lay.layers[n]
  IN  /\ layer.BitmapAddress # 0
      /\ IF layer.Protocol = "PNG" /\ layer.Key # "BGLAYER" THEN x \in layer.dark
         ELSE IF layer.Key = "BGLAYER" THEN layer.codes[x] # Transparent
         ELSE canonicalGroup(layer.codes[x]) \notin {-1, 3}

\* The places in the content stream where the content of layer n at pixel x
\* is drawn.
PaintsOf(n, x) ==
  {k \in 1..Len(lay.paint) :
     /\ x \in lay.paint[k].pixels
     /\ \/ lay.paint[k].kind = "image" /\ lay.bgOwner = n
        \/ lay.paint[k].kind = "fill" /\ lay.paint[k].png = n
        \/ /\ lay.paint[k].kind = "fill"
           /\ lay.paint[k].png = 0
           /\ lay.layers[n].Key # "BGLAYER"
           /\ lay.layers[n].Protocol = "RATTA_RLE"
           /\ lay.owner[x] = n}

\* At pixel x layer b is drawn, and after everything drawn of layer a.
DrawnOver(b, a, x) ==
  /\ PaintsOf(b, x) # {}
  /\ \A kb \in PaintsOf(b, x), ka \in PaintsOf(a, x) : ka < kb

\* C17: for any two layers of a page, the content of the layer that comes
\* later in the page's layer order is drawn over the content of the earlier
\* one, whatever their keys, protocols and tone classes.
C17_LaterLayerOnTop ==
  (lay.pc = "done" /\ ~lay.noBg) =>
    \A a, b \in 1..Len(lay.layers), x \in Pixels :
      (a < b /\ HasContent(a, x) /\ HasContent(b, x)) => DrawnOver(b, a, x)

\* C17: an image layer followed by a run-length layer with ink on the same
\* pixels: the ink of the later layer is drawn first, the image over it.
C17_ImageDrawnOverLaterInk ==
  /\ lay.pc = "done"
  /\ Len(lay.layers) = 2
  /\ lay.layers[1] = PngLayer("MAINLAYER", Pixels)
  /\ lay.layers[2] = RleLayer("LAYER1", AllOf(PenBlack))
  /\ Len(lay.paint) = 2
  /\ lay.paint[1].png = 0
  /\ lay.paint[2].png = 1
  /\ DrawnOver(1, 2, 1)

\* C17, the part the code keeps: between two run-length layers other than
\* the background layer the later one is drawn over the earlier one, and a
\* background layer that comes first lies under every other layer.
C17_RunLengthLayersInOrder ==
  (lay.pc = "done" /\ ~lay.noBg) =>
    \A a, b \in 1..Len(lay.layers), x \in Pixels :
      (/\ a < b
       /\ HasContent(a, x)
       /\ HasContent(b, x)
       /\ lay.layers[b].readable
       /\ lay.layers[b].Protocol = "RATTA_RLE"
       /\ lay.layers[b].Key # "BGLAYER"
       /\ lay.layers[a].Protocol = "RATTA_RLE") => DrawnOver(b, a, x)

(***************************************************************************)
(*                     Claims about the degenerate page                    *)
(***************************************************************************)

\* Where the digits that end just before position k begin.
RECURSIVE NumberStart(_, _)
NumberStart(data, k) ==
  IF k >= 1 /\ \E d \in 1..10 : Digits[d] = data[k]
  THEN NumberStart(data, k - 1) ELSE k + 1

\* The object ids a reader finds referenced ("N 0 R") in the file.
RefsIn(file) ==
  {DecValue(SubSeq(file, NumberStart(file, k - 1), k - 1)) :
     k \in {j \in 2..Len(file) : MatchAt(file, sRef, j)}}

\* The places where object N is defined: "N 0 obj" at the start of a line.
DefinitionsOf(file, N) ==
  {k \in 1..Len(file) :
     MatchAt(file, Dec(N) \o sObj, k) /\ (k = 1 \/ file[k - 1] = "\n")}

\* The first place where s occurs in data (0 when it does not occur).
FirstIndex(data, s) ==
  IF Contains(data, s)
  THEN CHOOSE k \in 1..Len(data) :
         MatchAt(data, s, k) /\ \A j \in 1..(k - 1) : ~MatchAt(data, s, j)
  ELSE 0

\* The single notebook page has no tone layer and no background raster.
DegeneratePage ==
  /\ cv.mode = "note"
  /\ cv.totalPages = 1
  /\ cv.results[1].colorLayers = <<>>
  /\ cv.results[1].bgRGB = "nil"
  /\ ~cv.results[1].err

\* C18: a notebook of one page with no populated tone group and no
\* background raster is written as a well-formed document of one page: the
\* page tree names one page object, that object names a contents object whose
\* stream fills no path, every object id referenced anywhere in the file is
\* defined exactly once, and the xref table points at each definition.
C18_DegeneratePageWellFormed ==
  (Written /\ DegeneratePage) =>
    LET file == cv.pw.file
        highest == cv.totalObjects
        kid == NumberAt(file, FirstIndex(file, sPagesHead) + Len(sPagesHead))
        contents == NumberAt(file, FirstIndex(file, sPageContents) + Len(sPageContents))
    IN  /\ cv.ret = "ok"
        /\ RefsIn(file) \subseteq 1..highest
        /\ \A N \in 1..highest :
             /\ Cardinality(DefinitionsOf(file, N)) = 1
             /\ XrefEntry(file, N) + 1 \in DefinitionsOf(file, N)
        /\ MatchAt(file, sCatalog, CHOOSE k \in DefinitionsOf(file, 1) : TRUE)
        /\ MatchAt(file, sPagesHead \o Dec(kid) \o sRef \o sPagesCount \o <<"1">>
                           \o sDictEnd,
                   CHOOSE k \in DefinitionsOf(file, 2) : TRUE)
        /\ MatchAt(file, Dec(kid) \o sPageHead, CHOOSE k \in DefinitionsOf(file, kid) : TRUE)
        /\ CountOf(file, sPageHead) = 1
        /\ MatchAt(file, Dec(contents) \o sLength,
                   CHOOSE k \in DefinitionsOf(file, contents) : TRUE)
        /\ ~Contains(file, sFill)
        /\ ~Contains(file, sRg)

\* The written document of one blank page: five objects, the last one the
\* one-pixel image the page draws.
C18_Witness ==
  /\ Written
  /\ DegeneratePage
  /\ cv.totalObjects = 5
  /\ RefsIn(cv.pw.file) = 1..5
  /\ Contains(cv.pw.file, sXObject \o <<"5">> \o sRefClose)

(***************************************************************************)
(* watcher.go : pathLocker                                                 *)
(*                                                                         *)
(* A pathLocker is the map locks (a path's mutex, 0 when the path has no   *)
(* entry) and the mutexes themselves (locked or not).  Mutexes are         *)
(* numbered; a new mutex takes the lowest number that neither the map nor  *)
(* a goroutine still refers to.  The sections guarded by pl.mu are single  *)
(* steps: pl.mu is held from the first to the last statement of each and   *)
(* nothing inside them blocks.                                             *)
(***************************************************************************)

\* The goroutines that call Lock and Unlock, and the paths they lock.
NumGoroutines == 3
Goroutines == 1..NumGoroutines
Paths == {"a.pdf", "b.pdf"}

\* Enough mutexes for every map entry and every goroutine's pointer.
Mutexes == 1..(NumGoroutines + Cardinality(Paths))

\* newPathLocker: an empty map.
newPathLocker(paths, mutexes) ==
  [locks |-> [p \in paths |-> 0], locked |-> [m \in mutexes |-> FALSE]]

\* &sync.Mutex{}: a mutex nothing refers to, unlocked.
NewMutex(pl, inUse) ==
  CHOOSE m \in DOMAIN pl.locked :
    /\ m \notin inUse
    /\ \A p \in DOMAIN pl.locks : pl.locks[p] # m
    /\ \A n \in DOMAIN pl.locked :
         (n \notin inUse /\ \A p \in DOMAIN pl.locks : pl.locks[p] # n) => m <= n

\* Lock, the section under pl.mu: the path's mutex, made and entered in the
\* map when the path has none.  Yields the locker and the mutex l.
LockSection(pl, path, inUse) ==
  IF pl.locks[path] # 0
  THEN [pl |-> pl, l |-> pl.locks[path]]
  ELSE LET l == NewMutex(pl, inUse)
       IN  [pl |-> [pl EXCEPT !.locks[path] = l, !.locked[l] = FALSE], l |-> l]

\* Unlock, the section under pl.mu: the path's entry is deleted and its mutex
\* is the one to unlock; l = 0 when the path has no entry (Unlock returns).
UnlockSection(pl, path) ==
  IF pl.locks[path] = 0
  THEN [pl |-> pl, l |-> 0]
  ELSE [pl |-> [pl EXCEPT !.locks[path] = 0], l |-> pl.locks[path]]

\* The state of the locker and of its callers.  A caller is idle, waiting in
\* l.Lock() ("wait"), past the return of Lock ("held"), or inside Unlock
\* before l.Unlock() ("release").  fatal: the runtime stopped the program
\* ("sync: unlock of unlocked mutex").
LkFrame ==
  [pl |-> newPathLocker(Paths, Mutexes),
   g |-> [k \in Goroutines |-> [pc |-> "idle", path |-> "a.pdf", l |-> 0]],
   fatal |-> FALSE]

LkIdle == LkFrame

\* The mutexes the callers other than k point at.
PointedAt(g, k) == {g[j].l : j \in (DOMAIN g) \ {k}} \ {0}

\* pathLocker.Lock up to l.Lock() (watcher.go:29-36).
PlLock(k) ==
  /\ ~plk.fatal
  /\ plk.g[k].pc = "idle"
  /\ \E path \in Paths :
       LET r == LockSection(plk.pl, path, PointedAt(plk.g, k))
       IN  plk' = [plk EXCEPT !.pl = r.pl,
                            !.g[k] = [pc |-> "wait", path |-> path, l |-> r.l]]
  /\ UNCHANGED OtherThanPlk

\* l.Lock() returns once the mutex is free (watcher.go:37).
PlAcquire(k) ==
  /\ ~plk.fatal
  /\ plk.g[k].pc = "wait"
  /\ ~plk.pl.locked[plk.g[k].l]
  /\ plk' = [plk EXCEPT !.pl.locked[plk.g[k].l] = TRUE, !.g[k].pc = "held"]
  /\ UNCHANGED OtherThanPlk

\* pathLocker.Unlock up to l.Unlock() (watcher.go:40-48).
PlUnlock(k) ==
  /\ ~plk.fatal
  /\ plk.g[k].pc = "held"
  /\ LET r == UnlockSection(plk.pl, plk.g[k].path)
     IN  plk' = [plk EXCEPT !.pl = r.pl,
                          !.g[k].pc = IF r.l = 0 THEN "idle" ELSE "release",
                          !.g[k].l = r.l]
  /\ UNCHANGED OtherThanPlk

\* l.Unlock() (watcher.go:49); unlocking an unlocked mutex is fatal.
PlRelease(k) ==
  /\ ~plk.fatal
  /\ plk.g[k].pc = "release"
  /\ plk' = IF plk.pl.locked[plk.g[k].l]
           THEN [plk EXCEPT !.pl.locked[plk.g[k].l] = FALSE,
                           !.g[k].pc = "idle", !.g[k].l = 0]
           ELSE [plk EXCEPT !.fatal = TRUE]
  /\ UNCHANGED OtherThanPlk

(***************************************************************************)
(*                       Claims about the pathLocker                       *)
(***************************************************************************)

\* The callers between the return of Lock(path) and their call of Unlock(path).
Holders(path) == {k \in Goroutines : plk.g[k].pc = "held" /\ plk.g[k].path = path}

\* C20: for every path, at most one goroutine is between the return of
\* Lock(path) and its call of Unlock(path).
C20_MutualExclusion == \A path \in Paths : Cardinality(Holders(path)) <= 1

\* C20: two goroutines are past Lock of the same path at once, each holding
\* a mutex of its own.
C20_TwoHolders ==
  \E path \in Paths : \E j, k \in Holders(path) :
    /\ j # k
    /\ plk.g[j].l # plk.g[k].l
    /\ plk.pl.locked[plk.g[j].l] /\ plk.pl.locked[plk.g[k].l]

\* C20: a caller of Unlock took from the map a mutex that its owner has not
\* locked yet, and the runtime stopped the program.
C20_UnlockOfUnlocked == plk.fatal

(***************************************************************************)
(* watcher.go : watch mode                                                 *)
(*                                                                         *)
(* The daemon after "Daemon ready", watching one source file, a .note of   *)
(* an input directory, whose output lies in the output location.  The      *)
(* processes are the environment (which writes and deletes the source),    *)
(* eventLoop, the debouncer's timer, pollLoop, and the conversions that    *)
(* the debouncer's callback starts.  Time is the count of the writes of    *)
(* the source: a file's modification time is the count when it was         *)
(* written.                                                                *)
(***************************************************************************)

\* The writes of the source by the environment, and the conversions the
\* debouncer's callback may start.
MaxWrites == 2
MaxConversions == 3
Conversions == 1..MaxConversions

\* The output path of the source (outputPathForSource).
OutputPdf == "out.pdf"

\* isUpToDate (main.go:240-250): both files exist and the output is not older.
isUpToDate(src, out) == out.exists /\ src.exists /\ out.mtime >= src.mtime

\* classifyEvent for a .note path under an input directory: a job unless the
\* output is up to date.  TRUE stands for a job, FALSE for nil.
classifyEvent(src, out) == ~isUpToDate(src, out)

\* os.Open of the source by ParseNotebook and by the page renderers.
SourceOpens(src) == src.exists

\* The daemon once initialScan has run: the source, when there is one, has an
\* output that is up to date; the debouncer has no timer; pollLoop has seen
\* nothing yet; no conversion exists.
WatFrame(present) ==
  [src |-> [exists |-> present, mtime |-> IF present THEN 1 ELSE 0],
   out |-> [exists |-> present, mtime |-> IF present THEN 1 ELSE 0],
   now |-> 1, writes |-> 0, deleted |-> FALSE, handled |-> {},
   events |-> <<>>,
   timer |-> FALSE,
   mtimes |-> 0, prevSources |-> FALSE,
   outLock |-> newPathLocker({OutputPdf}, 1..(MaxConversions + 1)),
   sem |-> 0,
   w |-> [k \in Conversions |-> [pc |-> "free", l |-> 0]],
   fatal |-> FALSE]

WatIdle == WatFrame(FALSE)

\* The environment writes (creates or changes) the source; fsnotify reports it.
EnvWrite ==
  /\ ~wat.deleted
  /\ wat.writes < MaxWrites
  /\ wat' = [wat EXCEPT !.src = [exists |-> TRUE, mtime |-> wat.now + 1],
                        !.now = wat.now + 1,
                        !.writes = wat.writes + 1,
                        !.events = Append(wat.events, "write")]
  /\ UNCHANGED OtherThanWat

\* The environment deletes the source, and changes nothing afterwards;
\* fsnotify reports the removal.
EnvDelete ==
  /\ ~wat.deleted
  /\ wat.src.exists
  /\ wat' = [wat EXCEPT !.src.exists = FALSE,
                        !.deleted = TRUE,
                        !.events = Append(wat.events, "remove")]
  /\ UNCHANGED OtherThanWat

\* handleDeletion (watcher.go:427-443): the output is removed when it exists.
handleDeletion(out) == [out EXCEPT !.exists = FALSE]

\* db.trigger (watcher.go:67-80): the path's timer is set, or reset.
trigger(timer) == TRUE

\* eventLoop, one event (watcher.go:208-247): a Remove of the source goes to
\* handleDeletion, every other event to the debouncer.
EventLoop ==
  /\ ~wat.fatal
  /\ wat.events # <<>>
  /\ wat' = IF Head(wat.events) = "remove"
            THEN [wat EXCEPT !.events = Tail(wat.events),
                             !.out = handleDeletion(wat.out),
                             !.handled = wat.handled \cup {"event"}]
            ELSE [wat EXCEPT !.events = Tail(wat.events),
                             !.timer = trigger(wat.timer)]
  /\ UNCHANGED OtherThanWat

\* pollLoop, one tick (watcher.go:251-316): a new modification time of the
\* source triggers the debouncer; a source of the previous tick that is gone
\* goes to handleDeletion; a source without output triggers the debouncer.
PollTick ==
  /\ ~wat.fatal
  /\ LET changed == wat.src.exists /\ wat.mtimes # wat.src.mtime
         gone == wat.prevSources /\ ~wat.src.exists
         out1 == IF gone THEN handleDeletion(wat.out) ELSE wat.out
         missing == wat.src.exists /\ ~out1.exists
     IN  wat' = [wat EXCEPT !.mtimes = IF wat.src.exists THEN wat.src.mtime ELSE 0,
                            !.prevSources = wat.src.exists,
                            !.out = out1,
                            !.handled = wat.handled \cup (IF gone THEN {"poll"} ELSE {}),
                            !.timer = IF changed \/ missing
                                      THEN trigger(wat.timer) ELSE wat.timer]
  /\ UNCHANGED OtherThanWat

\* The first conversion not yet started.
FreeConversion ==
  CHOOSE k \in Conversions :
    wat.w[k].pc = "free" /\ \A j \in Conversions : wat.w[j].pc = "free" => k <= j

\* The debouncer's timer fires (watcher.go:74-79, 121-126): the timer is
\* deleted and the callback classifies the path; with a job it goes on to
\* wg.Add and the send on sem.
TimerFire ==
  /\ ~wat.fatal
  /\ wat.timer
  /\ IF classifyEvent(wat.src, wat.out)
     THEN /\ \E k \in Conversions : wat.w[k].pc = "free"
          /\ wat' = [wat EXCEPT !.timer = FALSE, !.w[FreeConversion].pc = "sem"]
     ELSE wat' = [wat EXCEPT !.timer = FALSE]
  /\ UNCHANGED OtherThanWat

\* sem <- struct{}{} and the go statement (watcher.go:127-128).
ConvSem(k) ==
  /\ ~wat.fatal
  /\ wat.w[k].pc = "sem"
  /\ wat.sem < GoMaxProcs
  /\ wat' = [wat EXCEPT !.sem = wat.sem + 1, !.w[k].pc = "lock"]
  /\ UNCHANGED OtherThanWat

\* outLock.Lock(j.output) up to l.Lock() (watcher.go:130, 28-36).
ConvLock(k) ==
  /\ ~wat.fatal
  /\ wat.w[k].pc = "lock"
  /\ LET r == LockSection(wat.outLock, OutputPdf, PointedAt(wat.w, k))
     IN  wat' = [wat EXCEPT !.outLock = r.pl, !.w[k] = [pc |-> "wait", l |-> r.l]]
  /\ UNCHANGED OtherThanWat

\* l.Lock() returns (watcher.go:37).
ConvAcquire(k) ==
  /\ ~wat.fatal
  /\ wat.w[k].pc = "wait"
  /\ ~wat.outLock.locked[wat.w[k].l]
  /\ wat' = [wat EXCEPT !.outLock.locked[wat.w[k].l] = TRUE, !.w[k].pc = "recheck"]
  /\ UNCHANGED OtherThanWat

\* The second classifyEvent, under the lock (watcher.go:132-134).
ConvRecheck(k) ==
  /\ ~wat.fatal
  /\ wat.w[k].pc = "recheck"
  /\ wat' = [wat EXCEPT !.w[k].pc = IF classifyEvent(wat.src, wat.out)
                                   THEN "parse" ELSE "unlock"]
  /\ UNCHANGED OtherThanWat

\* convertJob: ParseNotebook opens the source (go.mod:181-186); without it
\* the conversion ends with an error.
ConvParse(k) ==
  /\ ~wat.fatal
  /\ wat.w[k].pc = "parse"
  /\ wat' = [wat EXCEPT !.w[k].pc = IF SourceOpens(wat.src) THEN "render" ELSE "unlock"]
  /\ UNCHANGED OtherThanWat

\* convertJob: the page renderers open the source again (vector.go:57-62,
\* 196-201); without it the conversion ends with an error.
ConvRender(k) ==
  /\ ~wat.fatal
  /\ wat.w[k].pc = "render"
  /\ wat' = [wat EXCEPT !.w[k].pc = IF SourceOpens(wat.src) THEN "write" ELSE "unlock"]
  /\ UNCHANGED OtherThanWat

\* convertJob: os.Create of the output and the writing of it
\* (vector.go:636-669).
ConvWrite(k) ==
  /\ ~wat.fatal
  /\ wat.w[k].pc = "write"
  /\ wat' = [wat EXCEPT !.out = [exists |-> TRUE, mtime |-> wat.now],
                        !.w[k].pc = "unlock"]
  /\ UNCHANGED OtherThanWat

\* The deferred outLock.Unlock(j.output) up to l.Unlock() (watcher.go:131,
\* 40-48).
ConvUnlock(k) ==
  /\ ~wat.fatal
  /\ wat.w[k].pc = "unlock"
  /\ LET r == UnlockSection(wat.outLock, OutputPdf)
     IN  wat' = [wat EXCEPT !.outLock = r.pl,
                            !.w[k] = [pc |-> IF r.l = 0 THEN "exit" ELSE "release",
                                      l |-> r.l]]
  /\ UNCHANGED OtherThanWat

\* l.Unlock() (watcher.go:49); unlocking an unlocked mutex is fatal.
ConvRelease(k) ==
  /\ ~wat.fatal
  /\ wat.w[k].pc = "release"
  /\ wat' = IF wat.outLock.locked[wat.w[k].l]
            THEN [wat EXCEPT !.outLock.locked[wat.w[k].l] = FALSE,
                             !.w[k] = [pc |-> "exit", l |-> 0]]
            ELSE [wat EXCEPT !.fatal = TRUE]
  /\ UNCHANGED OtherThanWat

\* The deferred <-sem and wg.Done (watcher.go:129).
ConvExit(k) ==
  /\ ~wat.fatal
  /\ wat.w[k].pc = "exit"
  /\ wat' = [wat EXCEPT !.sem = wat.sem - 1, !.w[k].pc = "done"]
  /\ UNCHANGED OtherThanWat

\* The steps of conversion k.
Conversion(k) ==
  \/ ConvSem(k) \/ ConvLock(k) \/ ConvAcquire(k) \/ ConvRecheck(k)
  \/ ConvParse(k) \/ ConvRender(k) \/ ConvWrite(k)
  \/ ConvUnlock(k) \/ ConvRelease(k) \/ ConvExit(k)

(***************************************************************************)
(*                       Claims about the watch mode                       *)
(***************************************************************************)

\* Nothing of the daemon is pending: no event, no timer, no conversion in
\* flight, and pollLoop has recorded the source as gone.
AtRest ==
  /\ wat.events = <<>>
  /\ ~wat.timer
  /\ \A k \in Conversions : wat.w[k].pc \in {"free", "done"}
  /\ ~wat.prevSources
  /\ wat.mtimes = 0

\* C19: once the source has been deleted (and is left alone), the daemon
\* reaches a state from which the output never exists again.
C19_OutputGoneForGood == wat.deleted ~> [](~wat.out.exists)

\* C19: the source is deleted, handleDeletion has run for it both from
\* eventLoop and from pollLoop, nothing is pending and the program is alive,
\* yet the output exists: a conversion that had opened the source wrote it
\* after handleDeletion had looked.
C19_OrphanAtRest ==
  /\ wat.deleted
  /\ wat.handled = {"event", "poll"}
  /\ ~wat.fatal
  /\ AtRest
  /\ wat.out.exists

\* C19: in the state of C19_OrphanAtRest no step of the daemon removes the
\* output: from then on it exists for ever.
C19_OrphanStays == [][(C19_OrphanAtRest => C19_OrphanAtRest')]_vars

(***************************************************************************)
(* watcher.go : debouncer                                                  *)
(*                                                                         *)
(* One path of a debouncer.  A timer made by time.AfterFunc is pending or  *)
(* not; when it expires the runtime starts a goroutine that runs its       *)
(* callback.  Reset of a timer that expired schedules the callback to run  *)
(* again.  The sections under d.mu are single steps.  A burst is a series  *)
(* of trigger calls each made less than the delay after the one before, so *)
(* between the return of one call and the start of the next no timer set   *)
(* by the burst has run its full delay: a timer expires only while a call  *)
(* is waiting for d.mu or when the burst is over.                          *)
(***************************************************************************)

\* The trigger calls of a burst.
MaxTriggers == 3
Timers == 1..MaxTriggers

\* newDebouncer: no timer in the map.  entry is the path's timer in d.timers
\* (0: none); made counts the timers created; waiting and ready count the
\* callback goroutines before their section under d.mu and before onFire;
\* fires records, for each call of onFire, the trigger calls made so far.
DbFrame ==
  [entry |-> 0, pending |-> [t \in Timers |-> FALSE], made |-> 0,
   waiting |-> 0, ready |-> 0,
   caller |-> "idle", called |-> 0, over |-> FALSE,
   fires |-> <<>>]

DbIdle == DbFrame

\* t.Reset(d.delay) (watcher.go:71): the timer is pending again, whether it
\* was still pending or had expired.
Reset(pending, t) == [pending EXCEPT ![t] = TRUE]

\* A call of trigger(path) starts: the caller goes for d.mu.
TriggerCall ==
  /\ db.caller = "idle"
  /\ ~db.over
  /\ db.called < MaxTriggers
  /\ db' = [db EXCEPT !.caller = "called", !.called = db.called + 1]
  /\ UNCHANGED OtherThanDb

\* trigger, the section under d.mu (watcher.go:68-79): the path's timer is
\* reset, or a timer is made and entered in the map.
TriggerSection ==
  /\ db.caller = "called"
  /\ db' = IF db.entry # 0
           THEN [db EXCEPT !.pending = Reset(db.pending, db.entry),
                           !.caller = "idle"]
           ELSE [db EXCEPT !.entry = db.made + 1,
                           !.made = db.made + 1,
                           !.pending[db.made + 1] = TRUE,
                           !.caller = "idle"]
  /\ UNCHANGED OtherThanDb

\* The burst ends: no trigger follows within the delay.
BurstOver ==
  /\ db.caller = "idle"
  /\ ~db.over
  /\ db.called > 0
  /\ db' = [db EXCEPT !.over = TRUE]
  /\ UNCHANGED OtherThanDb

\* A pending timer runs out: the runtime starts a goroutine with the
\* callback (time.AfterFunc, watcher.go:74).
TimerExpire(t) ==
  /\ db.pending[t]
  /\ db.caller = "called" \/ db.over
  /\ db' = [db EXCEPT !.pending[t] = FALSE, !.waiting = db.waiting + 1]
  /\ UNCHANGED OtherThanDb

\* The callback's section under d.mu (watcher.go:75-77): the path's entry is
\* deleted from the map.
CallbackSection ==
  /\ db.waiting > 0
  /\ db' = [db EXCEPT !.entry = 0, !.waiting = db.waiting - 1,
                      !.ready = db.ready + 1]
  /\ UNCHANGED OtherThanDb

\* d.onFire(path) (watcher.go:78).
CallbackFire ==
  /\ db.ready > 0
  /\ db' = [db EXCEPT !.ready = db.ready - 1,
                      !.fires = Append(db.fires, db.called)]
  /\ UNCHANGED OtherThanDb

(***************************************************************************)
(*                        Claims about the debouncer                       *)
(***************************************************************************)

\* The burst is over and nothing of it is left: no caller inside trigger, no
\* timer pending, no callback on its way.
BurstSettled ==
  /\ db.over
  /\ db.caller = "idle"
  /\ \A t \in Timers : ~db.pending[t]
  /\ db.waiting = 0
  /\ db.ready = 0

\* C21: onFire is never called twice for one burst, and once the burst has
\* settled it has been called exactly once, after the last trigger call was
\* made.
C21_OnceAfterLastTrigger ==
  /\ Len(db.fires) <= 1
  /\ BurstSettled => db.fires = <<db.called>>

\* C21: a burst of two trigger calls has settled with two calls of onFire,
\* both after the second trigger call was made.
C21_FiredTwice ==
  /\ BurstSettled
  /\ db.called = 2
  /\ db.fires = <<2, 2>>


(***************************************************************************)
(* watcher.go : runWatchMode, the shutdown                                 *)
(*                                                                         *)
(* The daemon from "Daemon ready" to its return, for a few source files    *)
(* that each need a conversion.  Per source file: no timer ("none"), a     *)
(* debounce timer pending ("timer"), the timer's callback running before   *)
(* its wg.Add ("callback"), after wg.Add and before the send on sem        *)
(* ("added"), the conversion goroutine running ("running"), finished       *)
(* ("done").  The main goroutine is in eventLoop ("loop"), in wg.Wait      *)
(* ("wait"), past "Shutdown complete." and before the deferred db.stop     *)
(* ("complete"), or has returned ("returned").                             *)
(***************************************************************************)

\* The source files with work for the daemon.
MaxSources == 2
Sources == 1..MaxSources

\* The daemon when eventLoop starts: no timer, no conversion, pollLoop at
\* its select.
SdFrame ==
  [pc |-> "loop", cancelled |-> FALSE,
   poll |-> "select",
   st |-> [p \in Sources |-> "none"],
   atStop |-> [p \in Sources |-> "none"],
   wg |-> 0, sem |-> 0]

SdIdle == SdFrame

\* debouncer.stop (watcher.go:82-89): every timer of the map is stopped and
\* deleted; a callback that has started is not touched.
stop(st) == [p \in DOMAIN st |-> IF st[p] = "timer" THEN "none" ELSE st[p]]

\* db.trigger for a source with no timer or with one pending.
Trigger(p) == [sd EXCEPT !.st[p] = "timer"]

\* eventLoop takes an event of source p and triggers the debouncer
\* (watcher.go:213-241).
SdEvent(p) ==
  /\ sd.pc = "loop"
  /\ sd.st[p] \in {"none", "timer"}
  /\ sd' = Trigger(p)
  /\ UNCHANGED OtherThanSd

\* The signal handler cancels the context (watcher.go:110-114).
SdCancel ==
  /\ sd.pc # "returned"
  /\ ~sd.cancelled
  /\ sd' = [sd EXCEPT !.cancelled = TRUE]
  /\ UNCHANGED OtherThanSd

\* eventLoop takes ctx.Done and returns; runWatchMode goes on to wg.Wait
\* (watcher.go:210-212, 151-153).
SdLoopEnd ==
  /\ sd.pc = "loop"
  /\ sd.cancelled
  /\ sd' = [sd EXCEPT !.pc = "wait", !.atStop = sd.st]
  /\ UNCHANGED OtherThanSd

\* wg.Wait returns and "Shutdown complete." is printed (watcher.go:153-154).
SdWait ==
  /\ sd.pc = "wait"
  /\ sd.wg = 0
  /\ sd' = [sd EXCEPT !.pc = "complete"]
  /\ UNCHANGED OtherThanSd

\* return nil with the deferred db.stop (watcher.go:155, 139).
SdReturn ==
  /\ sd.pc = "complete"
  /\ sd' = [sd EXCEPT !.pc = "returned", !.st = stop(sd.st)]
  /\ UNCHANGED OtherThanSd

\* pollLoop's select (watcher.go:258-263): a tick starts a walk; ctx.Done
\* ends the loop.  With both ready the select takes either.
SdPollSelect ==
  /\ sd.pc # "returned"
  /\ sd.poll = "select"
  /\ \/ sd' = [sd EXCEPT !.poll = "walk"]
     \/ sd.cancelled /\ sd' = [sd EXCEPT !.poll = "ended"]
  /\ UNCHANGED OtherThanSd

\* pollLoop's walk finds source p changed and triggers the debouncer
\* (watcher.go:283-286), or ends.
SdPollWalk ==
  /\ sd.pc # "returned"
  /\ sd.poll = "walk"
  /\ \/ \E p \in Sources :
          /\ sd.st[p] \in {"none", "timer"}
          /\ sd' = [Trigger(p) EXCEPT !.poll = "select"]
     \/ sd' = [sd EXCEPT !.poll = "select"]
  /\ UNCHANGED OtherThanSd

\* The timer of source p runs out and its callback starts (watcher.go:74).
SdExpire(p) ==
  /\ sd.pc # "returned"
  /\ sd.st[p] = "timer"
  /\ sd' = [sd EXCEPT !.st[p] = "callback"]
  /\ UNCHANGED OtherThanSd

\* The callback up to wg.Add(1) (watcher.go:75-78, 121-126).
SdAdd(p) ==
  /\ sd.pc # "returned"
  /\ sd.st[p] = "callback"
  /\ sd' = [sd EXCEPT !.st[p] = "added", !.wg = sd.wg + 1]
  /\ UNCHANGED OtherThanSd

\* sem <- struct{}{} and the go statement (watcher.go:127-128).
SdStart(p) ==
  /\ sd.pc # "returned"
  /\ sd.st[p] = "added"
  /\ sd.sem < GoMaxProcs
  /\ sd' = [sd EXCEPT !.st[p] = "running", !.sem = sd.sem + 1]
  /\ UNCHANGED OtherThanSd

\* The conversion goroutine ends: <-sem and wg.Done (watcher.go:129-136).
SdFinish(p) ==
  /\ sd.pc # "returned"
  /\ sd.st[p] = "running"
  /\ sd' = [sd EXCEPT !.st[p] = "done", !.sem = sd.sem - 1, !.wg = sd.wg - 1]
  /\ UNCHANGED OtherThanSd

(***************************************************************************)
(*                         Claims about the shutdown                       *)
(***************************************************************************)

\* The conversions started and not finished.
InFlight == {p \in Sources : sd.st[p] \in {"added", "running"}}

\* C22: once "Shutdown complete." is reported, and when runWatchMode returns,
\* no conversion is in flight: a timer pending when the event loop stopped
\* starts no conversion that outlives the wait.
C22_NothingInFlightAfterWait == sd.pc \in {"complete", "returned"} => InFlight = {}

\* C22: runWatchMode has returned while the conversion of a source is
\* running whose timer was pending when the event loop stopped.
C22_ConversionOutlivesWait ==
  /\ sd.pc = "returned"
  /\ \E p \in Sources : sd.atStop[p] = "timer" /\ sd.st[p] = "running"

\* C22: the conversions that had done their wg.Add when the event loop
\* stopped are finished when wg.Wait returns.
C22_StartedConversionsAwaited ==
  sd.pc \in {"complete", "returned"} =>
    \A p \in Sources : sd.atStop[p] \in {"added", "running"} => sd.st[p] = "done"

(***************************************************************************)
(*                      Claims about the join barrier                      *)
(***************************************************************************)

\* The assembly phase of a conversion whose notebook was parsed: the error
\* check, the allocation, the placeholder pass and the writing.
InAssembly ==
  /\ cv.mode = "note"
  /\ cv.parseOK
  /\ cv.pc \in {"check", "alloc", "resolve", "create", "head", "objects",
                "trailer", "done", "failed"}

\* The parallel phase: the spawn loop and wg.Wait.
InParallelPhase == cv.mode = "note" /\ cv.parallel /\ cv.pc \in {"spawn", "wait"}

\* A step changes at most the result slot of one task, which is the task
\* that rendered in that step.
OnlyOwnSlot ==
  \A k \in 1..cv.totalPages :
    cv'.results[k] # cv.results[k] =>
      /\ cv.task[k] = "running"
      /\ cv'.task[k] = "rendered"
      /\ \A j \in 1..cv.totalPages : j # k => cv'.results[j] = cv.results[j]
      /\ \A j \in 1..cv.totalPages : j # k => cv'.task[j] = cv.task[j]

\* C23: in parallel mode the assembly phase starts only when every page task
\* has finished, with or without an error; during the parallel phase no
\* object id is allocated, and a step of the phase writes at most the result
\* slot of the task that takes it.
C23_JoinBarrier ==
  /\ []((InAssembly /\ cv.parallel) => \A k \in 1..cv.totalPages : cv.task[k] = "done")
  /\ [](InParallelPhase =>
          cv.nextObjID = 0 /\ cv.pageObjIDs = <<>> /\ cv.chunks = <<>>)
  /\ [][InParallelPhase => OnlyOwnSlot]_vars

\* C23: a parallel conversion of two pages is past the barrier with one page
\* failed and one rendered, both tasks finished.
C23_Witness ==
  /\ InAssembly
  /\ cv.parallel
  /\ cv.totalPages = 2
  /\ cv.pc = "failed"
  /\ cv.results[1].err
  /\ ~cv.results[2].err
  /\ cv.results[2].colorLayers # <<>>
  /\ \A k \in 1..2 : cv.task[k] = "done"

(***************************************************************************)
(*              Claims about one iteration of decodeRLE's loop             *)
(*                                                                         *)
(* Checked over the streams of one or two pairs in which one pair's length *)
(* code runs over every byte, on a raster that clamps every run, one that  *)
(* clamps some, and one that clamps none.                                  *)
(***************************************************************************)

\* Every value of a length code.
LengthCodes == 0..255

\* Length codes of held pairs: the lowest, the highest and two between.
HoldCodes == {128, 129, 200, 254}

\* Streams of one pair and of two pairs, one of the length codes free.
PairStreams ==
  {<<c, L>> : c \in RLEColors, L \in LengthCodes}
    \cup {<<c1, L1, c2, 3>> : c1 \in RLEColors, L1 \in LengthCodes, c2 \in RLEColors}
    \cup {<<c1, L1, c2, L2>> : c1 \in RLEColors, L1 \in HoldCodes,
                               c2 \in RLEColors, L2 \in LengthCodes}

\* Raster sizes <<width, height>>: 10, 400 and 20000 pixels.
PairRasters == {<<10, 1>>, <<20, 20>>, <<200, 100>>}

\* The pair the next loop iteration reads.
NextColor == dec.data[dec.i + 1]
NextLength == dec.data[dec.i + 2]

\* The runs among rs that are passed to emit.
Opaque98(rs) == SelectSeq(rs, IsOpaque)

\* A loop iteration is about to run.
LoopStep == dec.pc = "loop" /\ DecLoopGuard(dec)

\* A loop iteration that resolves a held pair with a pair of another colour.
FlushStep == LoopStep /\ dec.hasHolder /\ NextColor # dec.heldColor

\* The two runs of such an iteration: the held run, then the new pair's.
FlushedRuns ==
  LET flush == Min(((dec.heldLength % 128) + 1) * 128, dec.expected - dec.pos)
  IN  <<Run(dec.pos, flush, dec.heldColor),
        Run(dec.pos + flush,
            Min(NextLength + 1, dec.expected - (dec.pos + flush)),
            NextColor)>>

\* C24: when a held pair (c1, L1) is followed by a pair (c2, L2) of another
\* colour, the held run comes first, at the current position with length
\* min(((L1 & 0x7F) + 1) << 7, remaining), then the new pair as an ordinary
\* run of length L2 + 1 (clamped) right after it, whatever L2 is; both go to
\* emit as ordinary runs do (not when the colour is the transparent code),
\* and no pair is held afterwards.
C24_FlushThenOrdinaryRun ==
  [][FlushStep => /\ dec'.runs = dec.runs \o FlushedRuns
                  /\ dec'.emits = dec.emits \o Opaque98(FlushedRuns)
                  /\ dec'.pos = FlushedRuns[2].pos + FlushedRuns[2].length
                  /\ ~dec'.hasHolder
                  /\ dec'.i = dec.i + 2]_vars

\* C24: a held pair (97, 0x81) followed by (0, 0xFF) on the large raster:
\* a run of 256 pixels of 97, then a run of 256 pixels of 0, nothing held.
C24_Witness ==
  /\ dec.data = <<97, 129, 0, 255>>
  /\ dec.expected = 20000
  /\ dec.i = 4
  /\ dec.emits = <<Run(0, 256, 97), Run(256, 256, 0)>>
  /\ ~dec.hasHolder

\* A loop iteration that reads a pair while none is held.
FreshStep == LoopStep /\ ~dec.hasHolder

\* The run of a pair that is not held back.
FreshRun(length) == Run(dec.pos, Min(length, dec.expected - dec.pos), NextColor)

\* C25: a pair read while none is held gives, with length code 0xFF, a run
\* of 16384 pixels (clamped) at once and no hold; with another length code
\* whose high bit is set, no run, the same position and the pair held; with
\* a length code below 0x80, a run of lengthCode + 1 pixels (clamped) at once.
C25_FreshPair ==
  [][FreshStep =>
       IF NextLength = 255 \/ NextLength < 128
       THEN LET run == FreshRun(IF NextLength = 255 THEN 16384 ELSE NextLength + 1)
            IN  /\ dec'.runs = Append(dec.runs, run)
                /\ dec'.emits = dec.emits \o Opaque98(<<run>>)
                /\ dec'.pos = dec.pos + run.length
                /\ ~dec'.hasHolder
       ELSE /\ dec'.runs = dec.runs
            /\ dec'.emits = dec.emits
            /\ dec'.pos = dec.pos
            /\ dec'.hasHolder
            /\ dec'.heldColor = NextColor
            /\ dec'.heldLength = NextLength]_vars

\* C25: the pair (97, 0xFF) alone on the large raster gave one run of 16384.
C25_Witness ==
  /\ dec.data = <<97, 255>>
  /\ dec.expected = 20000
  /\ dec.pc = "done"
  /\ dec.emits = <<Run(0, 16384, 97)>>
  /\ dec.pos = 16384

\* C26: the position stays within 0..width*height, and every run passed to
\* emit ends at or before width*height.
C26_WithinRaster ==
  /\ dec.pos >= 0
  /\ dec.pos <= dec.expected
  /\ \A k \in 1..Len(dec.emits) :
       /\ dec.emits[k].pos >= 0
       /\ dec.emits[k].length >= 0
       /\ dec.emits[k].pos + dec.emits[k].length <= dec.expected

\* C26: on the raster of 10 pixels a flushed run and a tail run were both
\* cut: the held run of 256 to 10 pixels, leaving the new pair none.
C26_Witness ==
  /\ dec.data = <<97, 129, 0, 255>>
  /\ dec.expected = 10
  /\ dec.pc = "done"
  /\ dec.emits = <<Run(0, 10, 97), Run(10, 0, 0)>>
  /\ dec.pos = 10

\* C28: every pair with the high bit of its length code set (0x80..0xFF),
\* read while none is held, is buffered: nothing is emitted for it at that
\* step and decoding goes on with the next pair.
C28_HighBitHolds ==
  [][(FreshStep /\ NextLength >= 128) =>
       /\ dec'.hasHolder
       /\ dec'.heldColor = NextColor
       /\ dec'.heldLength = NextLength
       /\ dec'.emits = dec.emits
       /\ dec'.pos = dec.pos
       /\ dec'.i = dec.i + 2
       /\ dec'.pc = "loop"]_vars

\* C28 amended: as stated for the length codes 0x80..0xFE; a pair with
\* length code 0xFF is not held but gives a run of 16384 pixels at once.
C28_HighBitHoldsBelowFF ==
  [][(FreshStep /\ NextLength >= 128) =>
       IF NextLength < 255
       THEN /\ dec'.hasHolder
            /\ dec'.heldColor = NextColor
            /\ dec'.heldLength = NextLength
            /\ dec'.emits = dec.emits
            /\ dec'.pos = dec.pos
            /\ dec'.i = dec.i + 2
            /\ dec'.pc = "loop"
       ELSE /\ ~dec'.hasHolder
            /\ dec'.pos = Min(dec.pos + 16384, dec.expected)
            /\ dec'.i = dec.i + 2]_vars

\* C28: the pair (97, 0xFE) is held after the first iteration, and the pair
\* (0, 3) is read next.
C28_Witness ==
  /\ dec.data = <<97, 254, 0, 3>>
  /\ dec.i = 2
  /\ dec.hasHolder
  /\ dec.heldColor = 97
  /\ dec.heldLength = 254
  /\ dec.emits = <<>>
  /\ dec.pos = 0
  /\ dec.pc = "loop"

(***************************************************************************)
(*                   Claims about the transparent code                     *)
(***************************************************************************)

\* The pixels of a run.
PixelsOf(r) == r.pos..(r.pos + r.length - 1)

\* Each decoded run starts where the one before it ended, the first at 0.
Abutting(runs) ==
  /\ runs # <<>> => runs[1].pos = 0
  /\ \A k \in 1..(Len(runs) - 1) : runs[k + 1].pos = runs[k].pos + runs[k].length

\* C27: emit is never called with the transparent code 0x62, on any path; a
\* transparent run advances the position by its length all the same, so that
\* the runs abut, the pixels of a transparent run keep the value the buffer
\* was filled with before decoding, and every other run lies at its place.
C27_TransparentNeverEmitted ==
  /\ \A k \in 1..Len(dec.emits) : dec.emits[k].colorCode # Transparent
  /\ dec.emits = SelectSeq(dec.runs, IsOpaque)
  /\ Abutting(dec.runs)
  /\ dec.pc = "loop" => dec.pos = DecodedEnd(dec)
  /\ dec.sink = "codes" =>
       \A k \in 1..Len(dec.runs) : \A x \in PixelsOf(dec.runs[k]) :
         dec.codeMap[x + 1] = IF dec.runs[k].colorCode = Transparent
                              THEN Background ELSE dec.runs[k].colorCode

\* C27: a transparent run of 4 pixels, then a run of 2 pixels of code 0 over
\* a buffer of 10: one call of emit, at position 4; pixels 0..3 and 6..9 are
\* as before.
C27_Witness ==
  /\ dec.data = <<Transparent, 3, 0, 1>>
  /\ dec.sink = "codes"
  /\ dec.expected = 10
  /\ dec.pc = "done"
  /\ dec.emits = <<Run(4, 2, 0)>>
  /\ dec.codeMap = <<Background, Background, Background, Background, 0, 0,
                     Background, Background, Background, Background>>

(***************************************************************************)
(*            Claims about the object ids of a page's chunk                *)
(***************************************************************************)

\* The chunks built so far, the layers each was built from and the base it
\* was given.
Built == IF cv.mode = "overlay" THEN Len(cv.chunks) ELSE Allocated
PassedLayers(p) ==
  IF cv.mode = "overlay" THEN cv.pages[p].colorLayers ELSE cv.results[p].colorLayers
Base(p) == IF cv.mode = "overlay" THEN FirstChunkID ELSE cv.pageObjIDs[p]

\* The chunk has a background: a raster, or the white pixel that
\* ConvertNoteToPDFVector asks for (vector.go:618).
WithBackground(p) == cv.mode = "note"

\* The alphas below full opacity of the layers from k on, each where it is
\* first seen.
RECURSIVE FirstSeenAlphas(_, _)
FirstSeenAlphas(layers, k) ==
  IF k > Len(layers) THEN <<>>
  ELSE (IF /\ layers[k].alpha < Opaque
           /\ \A j \in 1..(k - 1) : layers[j].alpha # layers[k].alpha
        THEN <<layers[k].alpha>> ELSE <<>>)
         \o FirstSeenAlphas(layers, k + 1)

StartsWith(data, s) == Len(data) >= Len(s) /\ SubSeq(data, 1, Len(s)) = s

\* The objects of chunk p are, in order and with the ids base, base+1, ...:
\* the page, the contents, one graphics state per alpha, the image.
ChunkInOrder(p) ==
  LET chunk == cv.chunks[p]
      base == Base(p)
      alphas == FirstSeenAlphas(PassedLayers(p), 1)
      n == Len(alphas)
  IN  /\ Len(chunk) = 2 + n + (IF WithBackground(p) THEN 1 ELSE 0)
      /\ \A j \in 1..Len(chunk) : chunk[j].id = base + j - 1
      /\ StartsWith(chunk[1].data, Dec(base) \o sPageHead)
      /\ StartsWith(chunk[2].data, Dec(base + 1) \o sLength)
      /\ \A k \in 1..n :
           chunk[2 + k].data
             = Dec(base + 1 + k) \o sGsObj \o Float4(Frac255(alphas[k])) \o sDictEnd
      /\ WithBackground(p) =>
           StartsWith(chunk[3 + n].data, Dec(base + 2 + n) \o sImageHead)

\* C29: a chunk's objects carry the ids base, base+1, ... in the order page,
\* contents, one graphics-state object per distinct alpha below full opacity
\* in the order the layers first show it, then the image if there is a
\* background; the count returned, by which the caller advances its next id,
\* is the number of objects of the chunk.
C29_SequentialFromBase ==
  /\ [](\A p \in 1..Built : ChunkInOrder(p))
  /\ [][cv.pc = "alloc" =>
          cv'.nextObjID = cv.nextObjID + Len(cv'.chunks[cv.i + 1])]_vars

\* C29: a page of ink and two marker groups of one alpha, given base 3: the
\* page 3, the contents 4, one graphics state 5, the image 6; the next page
\* starts at 7.
C29_Witness ==
  /\ cv.mode = "note"
  /\ cv.pc = "done"
  /\ cv.pages = <<TwoMarkerPage, LoneSpeckPage>>
  /\ Len(cv.results[1].colorLayers) = 3
  /\ ChunkIDs(cv.chunks, 1) = <<3, 4, 5, 6, 7, 8, 9>>
  /\ cv.pageObjIDs = <<3, 7>>

\* The tone groups of a page whose tracing found a path.
WithPaths(page) == SelectSeq(page.colorLayers, Traced)

\* The objects of a page, counted on its groups with paths alone: the page,
\* the contents, one graphics state per alpha below full opacity, the image.
ObjectsOf(page) ==
  LET layers == WithPaths(page)
  IN  3 + Cardinality({layers[k].alpha : k \in 1..Len(layers)} \ {Opaque})

RECURSIVE ObjectsBefore(_, _)
ObjectsBefore(pages, p) ==
  IF p = 1 THEN 0 ELSE ObjectsBefore(pages, p - 1) + ObjectsOf(pages[p - 1])

\* C30: the objects of a page and their ids are those of the page's groups
\* with paths: the number of objects of each page, and with it the id of
\* every object of the document, is the same with and without a group whose
\* path tree is empty, whatever its alpha.
C30_EmptyTreeAllocatesNothing ==
  cv.mode = "note" =>
    \A p \in 1..Allocated :
      /\ Len(cv.chunks[p]) = ObjectsOf(cv.pages[p])
      /\ \A j \in 1..Len(cv.chunks[p]) :
           cv.chunks[p][j].id = FirstChunkID + ObjectsBefore(cv.pages, p) + j - 1
      /\ \A k \in 1..Len(cv.results[p].colorLayers) :
           Traced(cv.results[p].colorLayers[k])

\* C30: the first page has ink and a marker group traced to nothing, the only
\* group of reduced alpha: three objects, 3 to 5, and the second page starts
\* at 6.
C30_Witness ==
  /\ cv.mode = "note"
  /\ cv.pc = "done"
  /\ cv.pages = <<LoneSpeckPage, SharedSpeckPage>>
  /\ cv.pageObjIDs = <<3, 6>>
  /\ ChunkIDs(cv.chunks, 1) = <<3, 4, 5, 6, 7, 8, 9>>

(***************************************************************************)
(*                    Claims about the image object                        *)
(***************************************************************************)

\* /Filter /FlateDecode
sFilter ==
  <<"/", "F", "i", "l", "t", "e", "r", " ", "/", "F", "l", "a", "t", "e",
    "D", "e", "c", "o", "d", "e">>

\* /Length 
sLengthKey == <<"/", "L", "e", "n", "g", "t", "h", " ">>

\* The image object of page p's chunk, the last of its objects, and the
\* raster it embeds: the page's background or the white pixel.
ImageOf(p) == cv.chunks[p][Len(cv.chunks[p])].data
RasterOf(p) ==
  IF cv.results[p].bgRGB = "nil" THEN WhitePixel ELSE cv.results[p].bgRGB

EndsWith(data, s) ==
  Len(data) >= Len(s) /\ SubSeq(data, Len(data) - Len(s) + 1, Len(data)) = s

\* The stream of the image object is the raw raster, with its length as
\* /Length.
EmbedsRaw(p) ==
  /\ EndsWith(ImageOf(p), sStream \o RasterOf(p) \o sImageEnd)
  /\ Contains(ImageOf(p), sLengthKey \o Dec(Len(RasterOf(p))) \o sStream)

\* C31: when compression of the background raster fails, the image object
\* embeds the raw raster with its length as /Length and its dictionary has no
\* /Filter /FlateDecode entry; the entry is there exactly when the stream is
\* compressed.
C31_FilterOnlyWhenCompressed ==
  cv.mode = "note" =>
    \A p \in 1..Allocated :
      /\ ~cv.zlibOK => EmbedsRaw(p)
      /\ Contains(ImageOf(p), sFilter) <=> cv.zlibOK

\* C31: compression failed, and the image object of page 1 holds the raw
\* raster under a dictionary that names the filter.
C31_RawUnderFilter ==
  /\ cv.mode = "note"
  /\ cv.pc = "done"
  /\ ~cv.zlibOK
  /\ Allocated >= 1
  /\ EmbedsRaw(1)
  /\ Contains(ImageOf(1), sFilter)

\* Whether or not compression fails, the stream and /Length agree: the raw
\* raster when it fails, the compressed bytes otherwise.
C31_StreamMatchesLength ==
  cv.mode = "note" =>
    \A p \in 1..Allocated :
      IF cv.zlibOK
      THEN LET z == compressZlib(RasterOf(p))
           IN  /\ EndsWith(ImageOf(p), sStream \o z \o sImageEnd)
               /\ Contains(ImageOf(p), sLengthKey \o Dec(Len(z)) \o sStream)
      ELSE EmbedsRaw(p)

(***************************************************************************)
(*              rle.go : fillCodes, fillRGB and fillRGBA                   *)
(* One call of a fill routine on a buffer of whole pixels, the loop one    *)
(* iteration at a time.  A slice expression b[lo:hi] faults unless         *)
(* 0 <= lo <= hi <= cap(b), an index b[k] unless k < len(b); the buffers   *)
(* come from make, so cap(b) = len(b).                                     *)
(***************************************************************************)

\* Bound: pixels of the buffer.
MaxFillPixels == 4

\* Bound: the count of a call.
MaxFillCount == 6

Routines == {"fillCodes", "fillRGB", "fillRGBA"}

\* Bytes of a pixel, and the unit written: a code, r g b, r g b alpha.
UnitLen(routine) ==
  CASE routine = "fillCodes" -> 1 [] routine = "fillRGB" -> 3 [] OTHER -> 4
FillUnit(routine) == SubSeq(<<1, 2, 3, 4>>, 1, UnitLen(routine))

\* The buffer before the call: every byte different from the unit's.
FreshBuffer(routine, pixels) == [k \in 1..(pixels * UnitLen(routine)) |-> 100 + k]

FlFrame(routine, pixels, pos, count) ==
  [routine |-> routine, buf |-> FreshBuffer(routine, pixels), pixels |-> pixels,
   pos |-> pos, count |-> count, start |-> 0, end |-> 0, filled |-> 0,
   pc |-> "entry"]

FlIdle == [FlFrame("fillCodes", 0, 0, 0) EXCEPT !.pc = "idle"]

\* The head of a routine: start and end, the early return, the unit written
\* once (rle.go:177-184, 192-200, 207-211).
FillEntry ==
  /\ fl.pc = "entry"
  /\ LET u == UnitLen(fl.routine)
         start == fl.pos * u
         end == Min(start + fl.count * u, Len(fl.buf))
     IN  fl' = IF start >= end THEN [fl EXCEPT !.pc = "done"]
               ELSE IF start + u > Len(fl.buf) THEN [fl EXCEPT !.pc = "panic"]
               ELSE [fl EXCEPT
                       !.buf = [k \in 1..Len(fl.buf) |->
                                  IF k > start /\ k <= start + u
                                  THEN FillUnit(fl.routine)[k - start] ELSE fl.buf[k]],
                       !.start = start, !.end = end,
                       !.filled = IF fl.routine = "fillRGBA" THEN 4 ELSE 1,
                       !.pc = "loop"]
  /\ UNCHANGED OtherThanFl

\* The loop condition: fillCodes and fillRGBA compare with the bytes to fill
\* (rle.go:185, 212), fillRGB compares with count (rle.go:201).
FillGuard ==
  IF fl.routine = "fillRGB" THEN fl.filled < fl.count
  ELSE fl.filled < fl.end - fl.start

\* One iteration: copy(b[lo:end], b[start:lo]), filled *= 2
\* (rle.go:185-187, 201-203, 212-214).
FillLoop ==
  /\ fl.pc = "loop"
  /\ LET lo == fl.start
               + (IF fl.routine = "fillRGB" THEN fl.filled * 3 ELSE fl.filled)
     IN  fl' = IF ~FillGuard THEN [fl EXCEPT !.pc = "done"]
               ELSE IF lo > fl.end \/ lo > Len(fl.buf) THEN [fl EXCEPT !.pc = "panic"]
               ELSE [fl EXCEPT
                       !.buf = CopyWithin(@, lo, fl.end, fl.start, lo),
                       !.filled = fl.filled * 2]
  /\ UNCHANGED OtherThanFl

(***************************************************************************)
(*                   Claims about the fill routines                        *)
(***************************************************************************)

\* The per-pixel loop: the pixels pos .. min(pos + count, pixels) - 1 hold
\* the unit, every other byte is as before.
PixelLoop(routine, pixels, pos, count) ==
  LET u == UnitLen(routine)
  IN  [k \in 1..(pixels * u) |->
         IF (k - 1) \div u >= pos /\ (k - 1) \div u < Min(pos + count, pixels)
         THEN FillUnit(routine)[((k - 1) % u) + 1]
         ELSE FreshBuffer(routine, pixels)[k]]

\* C32: each of the three routines, for every buffer, position and count
\* (runs past the end of the buffer and count = 0 among them), ends without
\* a fault, with exactly the pixels pos .. min(pos + count, pixels) - 1 set
\* to the unit and every other byte unchanged.
C32_EqualsPixelLoop ==
  /\ fl.pc # "panic"
  /\ fl.pc = "done" => fl.buf = PixelLoop(fl.routine, fl.pixels, fl.pos, fl.count)

\* C32: fillRGB called for the last pixel of a buffer with count 3 faults in
\* its second iteration, the unit written to that pixel.
C32_FillRGBFaults ==
  /\ fl.routine = "fillRGB"
  /\ fl.pixels = 2 /\ fl.pos = 1 /\ fl.count = 3
  /\ fl.filled = 2
  /\ fl.pc = "panic"

\* A run that ends within the buffer, as decodeRLE emits them.
WithinBuffer == fl.pos + fl.count <= fl.pixels

\* For the runs within the buffer all three routines, and for every run
\* fillCodes and fillRGBA, end without a fault and equal the per-pixel loop.
C32_EqualsPixelLoopWithin ==
  WithinBuffer \/ fl.routine # "fillRGB" => C32_EqualsPixelLoop

\* Every call ends or faults.
C32_Ends == <>(fl.pc \in {"done", "panic", "idle"})

(***************************************************************************)
(*                     Claims about the tone masks                         *)
(***************************************************************************)

\* An interpolated code, of no group, and the white pen code.
Interpolated == 50
PenWhite == 101

\* Marker dark gray.
MarkerGray == 103

\* Codes of the pixels of a run-length layer.
MaskCodes ==
  {PenBlack, TemplateGray, MarkerBlack, MarkerGray, Transparent, PenWhite, Interpolated}

\* Keys of the content layers of a page, in layer order.
ContentKeys == <<"MAINLAYER", "LAYER1", "LAYER2", "LAYER3">>

\* Code c1 on the first pixel, c2 on the others.
Split(c1, c2) == [x \in Pixels |-> IF x = 1 THEN c1 ELSE c2]

\* A content layer: run-length with one code on every pixel or on the first
\* pixel alone, or with two tones; a dark image.
MaskLayers(key) ==
  {RleLayer(key, AllOf(c)) : c \in MaskCodes}
    \cup {RleLayer(key, FirstOnly(c)) : c \in MaskCodes}
    \cup {RleLayer(key, Split(MarkerBlack, MarkerGray)),
          RleLayer(key, Split(TemplateGray, PenBlack)),
          RleLayer(key, Split(MarkerGray, PenBlack)),
          PngLayer(key, Pixels), PngLayer(key, {1})}

\* Pages of up to MaxLayers content layers.
MaskPages ==
  {p \in UNION {[1..k -> UNION {MaskLayers(ContentKeys[n]) : n \in 1..k}] :
                  k \in 1..MaxLayers} :
     \A n \in 1..Len(p) : p[n].Key = ContentKeys[n]}

\* The final code of pixel x: that of the last layer with a run over x that is
\* not transparent, 0xFF when there is none.
FinalCode(x) ==
  LET writers == {n \in 1..Len(lay.layers) :
                    /\ lay.layers[n].Key # "BGLAYER"
                    /\ lay.layers[n].BitmapAddress # 0
                    /\ lay.layers[n].Protocol = "RATTA_RLE"
                    /\ lay.layers[n].codes[x] # Transparent}
  IN  IF writers = {} THEN Background
      ELSE lay.layers[CHOOSE n \in writers : \A m \in writers : m <= n].codes[x]

\* The masks are built.
MasksBuilt == lay.pc \in {"trace", "background", "content", "done"}

\* C33: after the run-length layers of a page are decoded in layer order, a
\* pixel is foreground in the mask of group g exactly when its final code is
\* of group g and g is one of the six groups other than white; so a pixel is
\* foreground in at most one mask, a white, transparent or interpolated
\* pixel in none, and a mask is made only for a group with a pixel.
C33_MasksByFinalCode ==
  MasksBuilt =>
    /\ \A g \in 0..6 : \A x \in Pixels :
         x \in lay.masks[g] <=> (canonicalGroup(FinalCode(x)) = g /\ g # 3)
    /\ \A x \in Pixels : Cardinality({g \in 0..6 : x \in lay.masks[g]}) <= 1
    /\ \A x \in Pixels :
         canonicalGroup(FinalCode(x)) \in {-1, 3} =>
           \A g \in 0..6 : x \notin lay.masks[g]
    /\ \A g \in 0..6 : g \in lay.made <=> lay.masks[g] # {}

\* C33: a marker layer under a layer with ink on the first pixel alone: the
\* first pixel is in the mask of black, the second in that of marker black,
\* and no other mask is made.
C33_Witness ==
  /\ MasksBuilt
  /\ lay.layers = <<RleLayer("MAINLAYER", AllOf(MarkerBlack)),
                    RleLayer("LAYER1", FirstOnly(PenBlack))>>
  /\ lay.masks[0] = {1}
  /\ lay.masks[4] = Pixels \ {1}
  /\ lay.made = {0, 4}

(***************************************************************************)
(*               Claims about the order of the tone layers                 *)
(***************************************************************************)

\* The tone layers are returned.
LayersReturned == lay.pc \in {"background", "content", "done"}

\* The place of a layer in the order of production: the tone groups by group
\* number, then the image layers by their place among the page's layers.
Produced(cl) ==
  IF cl.png # 0 THEN 6 + cl.png
  ELSE CHOOSE g \in 0..6 : groupPaletteIdx[g + 1] = cl.idx

\* C34: in the list renderContentColorLayers returns, every layer of alpha
\* below 255 comes before every layer of full opacity, and within each of the
\* two classes the layers are in the order of their production: tone groups
\* by ascending group number, then image layers in layer order.
C34_MarkersFirstStable ==
  LayersReturned =>
    \A a, b \in 1..Len(lay.colorLayers) :
      a < b =>
        LET la == lay.colorLayers[a]
            lb == lay.colorLayers[b]
        IN  /\ ~(la.alpha = Opaque /\ lb.alpha < Opaque)
            /\ (la.alpha < Opaque <=> lb.alpha < Opaque) =>
                 Produced(la) < Produced(lb)

\* C34: marker dark gray on the first pixel and black ink on the other, under
\* an image: the marker layer, produced second, is returned first, then the
\* ink, then the image.
C34_Witness ==
  /\ LayersReturned
  /\ lay.layers = <<RleLayer("MAINLAYER", Split(MarkerGray, PenBlack)),
                    PngLayer("LAYER1", Pixels)>>
  /\ Len(lay.colorLayers) = 3
  /\ lay.colorLayers[1].idx = MarkerGray /\ lay.colorLayers[1].alpha < Opaque
  /\ lay.colorLayers[2].idx = 0 /\ lay.colorLayers[2].png = 0
  /\ lay.colorLayers[3].png = 2

(***************************************************************************)
(*           rle.go : buildIdentityPalette and IdentityPalette             *)
(* The package-level variable identityPalette is set once, when the        *)
(* package is initialised; IdentityPalette returns the pointer held in it, *)
(* and renderMarkPageRGBA reads colours and alphas through that pointer.   *)
(***************************************************************************)

\* Bound: calls of IdentityPalette.
MaxPaletteCalls == 2

Gray(v) == <<v, v, v>>

\* Faulty variant of buildIdentityPalette: the pen codes are not set apart.
buildIdentityPalette_PlainGray == [Colors |-> [c \in 0..255 |-> Gray(c % 256)], Alphas |-> [c \in 0..255 |-> 255]]

\* buildIdentityPalette (rle.go:76-90): the loop, then the pen codes.
buildIdentityPalette ==
  LET loop == [c \in 0..255 |-> Gray(c % 256)]
  IN  [Colors |-> [loop EXCEPT ![97] = Gray(0), ![99] = Gray(157),
                               ![100] = Gray(201), ![101] = Gray(255),
                               ![102] = Gray(0), ![103] = Gray(157),
                               ![104] = Gray(201)],
       Alphas |-> [c \in 0..255 |-> 255]]

NoPalette == [Colors |-> [c \in 0..255 |-> Gray(0)], Alphas |-> [c \in 0..255 |-> 0]]

\* The variable identityPalette, the times it was built, the calls of
\* IdentityPalette and the palette each returned, and the last colour read.
IdpFrame ==
  [table |-> NoPalette, builds |-> 0, calls |-> 0, returned |-> <<>>,
   code |-> 0, color |-> Gray(0), alpha |-> 0, pc |-> "init"]

IdpIdle == [IdpFrame EXCEPT !.pc = "idle"]

\* var identityPalette = buildIdentityPalette() (rle.go:74).
IdpBuild ==
  /\ idp.pc = "init"
  /\ idp' = [idp EXCEPT !.table = buildIdentityPalette, !.builds = @ + 1,
                        !.pc = "ready"]
  /\ UNCHANGED OtherThanIdp

\* IdentityPalette() (rle.go:93-95).
IdpCall ==
  /\ idp.pc = "ready"
  /\ idp.calls < MaxPaletteCalls
  /\ idp' = [idp EXCEPT !.calls = @ + 1, !.returned = Append(@, idp.table)]
  /\ UNCHANGED OtherThanIdp

\* A sink reads the colour and alpha of a code through the palette returned
\* (rle.go:171-172).
IdpRead(colorCode) ==
  /\ idp.pc = "ready"
  /\ idp.calls > 0
  /\ idp' = [idp EXCEPT !.code = colorCode,
                        !.color = idp.table.Colors[colorCode],
                        !.alpha = idp.table.Alphas[colorCode]]
  /\ UNCHANGED OtherThanIdp

(***************************************************************************)
(*                  Claims about the identity palette                      *)
(***************************************************************************)

\* The table is the same at every call and was built once.
SameTable ==
  /\ idp.builds <= 1
  /\ \A k \in 1..Len(idp.returned) : idp.returned[k] = idp.returned[1]
  /\ idp.returned # <<>> => idp.table = idp.returned[1]

\* C35: the identity palette maps every code c of 0..255 to the gray (c, c, c)
\* with full opacity, and IdentityPalette returns the same table, never
\* changed, at every call.
C35_EveryCodeItsGray ==
  idp.pc = "ready" =>
    /\ \A c \in 0..255 :
         idp.table.Colors[c] = <<c, c, c>> /\ idp.table.Alphas[c] = 255
    /\ SameTable

\* The gray of a pen code: black, dark gray, light gray and white for the pen
\* codes 0x61, 0x63, 0x64, 0x65, black, dark gray and light gray for the
\* marker codes 0x66, 0x67, 0x68.
PenGray(c) ==
  CASE c \in {97, 102} -> 0
    [] c \in {99, 103} -> 157
    [] c \in {100, 104} -> 201
    [] c = 101 -> 255

\* C35, amended: the identity palette maps every code c to (c, c, c) but the
\* seven pen codes, which it maps to the gray of their tone; every code has
\* full opacity; the table is the same, never changed, at every call.
C35_ItsGrayButPenCodes ==
  idp.pc = "ready" =>
    /\ \A c \in 0..255 :
         /\ idp.table.Colors[c]
              = IF c \in 97..104 \ {98} THEN <<PenGray(c), PenGray(c), PenGray(c)>>
                ELSE <<c, c, c>>
         /\ idp.table.Alphas[c] = 255
    /\ SameTable

\* C35: after two calls the colour read for the pen code 0x61 is black.
C35_Witness ==
  /\ idp.calls = 2
  /\ idp.returned[1] = idp.returned[2]
  /\ idp.code = 97
  /\ idp.color = <<0, 0, 0>>
  /\ idp.alpha = 255

(***************************************************************************)
(*                 part_001 : ConvertMarkToPDFVector                       *)
(* One conversion of a mark file onto its companion PDF.  The output file  *)
(* is what the conversion has written at outputPath: the companion PDF     *)
(* with its boxes expanded, then the overlays stamped onto it page by      *)
(* page.  Every call that can fail does so or not by choice.               *)
(***************************************************************************)

\* Bound: pages of the mark file.
MaxMarkPages == 2

\* What a page's pixels hold: strokes of the pen, of the marker.
MarkPageKinds == [pen : BOOLEAN, marker : BOOLEAN]

NoOutput == [exists |-> FALSE, stamps |-> <<>>, annotated |-> FALSE]

MkFrame(pages) ==
  [pages |-> pages, i |-> 0, tmpDir |-> FALSE, out |-> NoOutput,
   ret |-> "none", failedAt |-> "none", pc |-> "parse"]

MkIdle == [MkFrame(<<>>) EXCEPT !.pc = "idle"]

\* A return with an error: the deferred os.RemoveAll(tmpDir) runs
\* (part_001:416), nothing else.
MkError(m, at) ==
  [m EXCEPT !.ret = "error", !.failedAt = at, !.tmpDir = FALSE, !.pc = "failed"]

\* The loop goes to the page after page i, or ends.
MkAfterPage(m) ==
  [m EXCEPT !.i = @ + 1,
            !.pc = IF m.i + 1 = Len(m.pages) THEN "annotate" ELSE "render"]

\* ParseNotebook(markPath), api.PageDimsFile(pdfPath), os.MkdirTemp
\* (part_001:394-415).
MkOpen ==
  /\ mk.pc = "parse"
  /\ \E ok \in BOOLEAN :
       mk' = IF ok THEN [mk EXCEPT !.tmpDir = TRUE, !.pc = "expand"]
             ELSE MkError(mk, "open")
  /\ UNCHANGED OtherThanMk

\* expandPDFMediaBox(pdfPath, outputPath, ...) (part_001:418-420): on success
\* the output file is there.
MkExpand ==
  /\ mk.pc = "expand"
  /\ \E ok \in BOOLEAN :
       mk' = IF ok
             THEN [mk EXCEPT !.out.exists = TRUE,
                             !.pc = IF mk.pages = <<>> THEN "annotate" ELSE "render"]
             ELSE MkError(mk, "expand")
  /\ UNCHANGED OtherThanMk

\* renderMarkPageRGBA and the masks of page i (part_001:431-457).
MkRender ==
  /\ mk.pc = "render"
  /\ \E ok \in BOOLEAN :
       LET page == mk.pages[mk.i + 1]
       IN  mk' = IF ~ok THEN MkError(mk, "render")
                 ELSE IF page.pen THEN [mk EXCEPT !.pc = "pen"]
                 ELSE IF page.marker THEN [mk EXCEPT !.pc = "marker"]
                 ELSE MkAfterPage(mk)
  /\ UNCHANGED OtherThanMk

\* traceAndOverlayMask (part_001:262-300): tracing fails, or finds no path and
\* stamps nothing, or the overlay is written and stamped, or writing or
\* stamping fails.
Overlay(m, label, outcome) ==
  CASE outcome = "stamped" -> [m EXCEPT !.out.stamps = Append(@, <<m.i + 1, label>>)]
    [] outcome = "nopath" -> m
    [] OTHER -> MkError(m, outcome)

OverlayOutcomes == {"stamped", "nopath", "trace", "stamp"}

\* The pen overlay of page i (part_001:461-472).
MkPen ==
  /\ mk.pc = "pen"
  /\ \E outcome \in OverlayOutcomes :
       LET m == Overlay(mk, "pen", outcome)
       IN  mk' = IF m.pc = "failed" THEN m
                 ELSE IF mk.pages[mk.i + 1].marker THEN [m EXCEPT !.pc = "marker"]
                 ELSE MkAfterPage(m)
  /\ UNCHANGED OtherThanMk

\* The marker overlay of page i (part_001:474-486).
MkMarker ==
  /\ mk.pc = "marker"
  /\ \E outcome \in OverlayOutcomes :
       LET m == Overlay(mk, "marker", outcome)
       IN  mk' = IF m.pc = "failed" THEN m ELSE MkAfterPage(m)
  /\ UNCHANGED OtherThanMk

\* return applyHighlightAnnotations(markPath, outputPath, dims)
\* (part_001:489).
MkAnnotate ==
  /\ mk.pc = "annotate"
  /\ \E ok \in BOOLEAN :
       mk' = IF ok THEN [mk EXCEPT !.out.annotated = TRUE, !.tmpDir = FALSE,
                                   !.ret = "ok", !.pc = "done"]
             ELSE MkError(mk, "annotate")
  /\ UNCHANGED OtherThanMk

(***************************************************************************)
(*                  Claims about the mark conversion                       *)
(***************************************************************************)

\* The conversion failed on a page: rendering, tracing or stamping.
PageFailed == mk.ret = "error" /\ mk.failedAt \in {"render", "trace", "stamp"}

\* C36: when rendering, tracing or stamping of a page fails, the conversion
\* returns an error and no file is left at the output path.
C36_PageFailureLeavesNoFile ==
  /\ mk.failedAt \in {"render", "trace", "stamp"} => mk.ret = "error"
  /\ PageFailed => ~mk.out.exists

\* C36: rendering page 2 failed after the pen overlay of page 1 was stamped:
\* the conversion has returned an error and the output file is there, with
\* the overlay of page 1 alone.
C36_PartialFileLeft ==
  /\ PageFailed
  /\ mk.failedAt = "render"
  /\ mk.i = 1
  /\ mk.out.exists
  /\ mk.out.stamps = <<<<1, "pen">>>>
  /\ ~mk.tmpDir

\* Every page failure returns an error, and a failure before
\* expandPDFMediaBox has written the output leaves no file.
C36_ErrorReturned ==
  /\ mk.failedAt \in {"render", "trace", "stamp"} => mk.ret = "error"
  /\ mk.failedAt \in {"open", "expand"} => ~mk.out.exists
  /\ mk.ret = "ok" => mk.out.exists /\ mk.out.annotated

(***************************************************************************)
(*                      watcher.go : initialScan                           *)
(* The walk over the input directories, the job map keyed by output path,  *)
(* and the conversions under the semaphore and the wait group.  The        *)
(* event loop and the poll loop start after initialScan has returned       *)
(* (watcher.go:140-151), so the conversions of the scan are the only       *)
(* users of the path locker.                                               *)
(***************************************************************************)

\* The sources under the input directories: a note and a mark file of one
\* name, whose outputs are the same file, and two more notes.
ScanSources == {"a.note", "a.pdf.mark", "b.note", "c.note"}

\* outputPath (watcher.go:326, 338): .note becomes .pdf, .mark is cut off.
OutputOf(src) ==
  CASE src \in {"a.note", "a.pdf.mark"} -> "a.pdf"
    [] src = "b.note" -> "b.pdf"
    [] src = "c.note" -> "c.pdf"

\* Faulty variant of JobKey: the jobs are kept by input path.
JobKey_Input(src) == src

\* jobs[j.output] = *j (watcher.go:187): the key of a job in the map.
JobKey(src) == OutputOf(src)

ScanKeys == ScanSources \cup {OutputOf(src) : src \in ScanSources}

\* stale: the sources classifyEvent gives a job for.
ScnFrame(stale) ==
  [stale |-> stale, walked |-> {}, jobs |-> {}, todo |-> {},
   sem |-> 0, wg |-> 0, task |-> [k \in ScanKeys |-> "none"],
   locked |-> {}, started |-> <<>>, pc |-> "walk"]

ScnIdle == [ScnFrame({}) EXCEPT !.pc = "idle"]

\* The WalkDir callback for one file (watcher.go:179-190).
ScanWalk(src) ==
  /\ scn.pc = "walk"
  /\ src \notin scn.walked
  /\ scn' = [scn EXCEPT
               !.walked = @ \cup {src},
               !.jobs = IF src \in scn.stale
                        THEN {j \in @ : j.key # JobKey(src)}
                               \cup {[key |-> JobKey(src), input |-> src,
                                      output |-> OutputOf(src)]}
                        ELSE @]
  /\ UNCHANGED OtherThanScn

\* The walks are over; the range over the map begins (watcher.go:193-195).
ScanWalked ==
  /\ scn.pc = "walk"
  /\ scn.walked = ScanSources
  /\ scn' = [scn EXCEPT !.todo = scn.jobs,
                        !.pc = IF scn.jobs = {} THEN "wait" ELSE "spawn"]
  /\ UNCHANGED OtherThanScn

\* wg.Add(1); sem <- struct{}{}; go func() (watcher.go:196-198), for the jobs
\* in the order of the map's iteration.
ScanSpawn(j) ==
  /\ scn.pc = "spawn"
  /\ j \in scn.todo
  /\ scn.sem < GoMaxProcs
  /\ scn' = [scn EXCEPT
               !.todo = @ \ {j}, !.wg = @ + 1, !.sem = @ + 1,
               !.task[j.key] = "spawned",
               !.started = Append(@, j),
               !.pc = IF scn.todo = {j} THEN "wait" ELSE "spawn"]
  /\ UNCHANGED OtherThanScn

\* outLock.Lock(j.output) (watcher.go:200).
ScanLock(j) ==
  /\ scn.task[j.key] = "spawned"
  /\ j.output \notin scn.locked
  /\ scn' = [scn EXCEPT !.locked = @ \cup {j.output}, !.task[j.key] = "converting"]
  /\ UNCHANGED OtherThanScn

\* convertJob(j, noBg, cfg) returns, and the deferred Unlock runs
\* (watcher.go:201-202).
ScanConvert(j) ==
  /\ scn.task[j.key] = "converting"
  /\ scn' = [scn EXCEPT !.locked = @ \ {j.output}, !.task[j.key] = "unlocked"]
  /\ UNCHANGED OtherThanScn

\* defer func() { <-sem; wg.Done() }() (watcher.go:199).
ScanRelease(j) ==
  /\ scn.task[j.key] = "unlocked"
  /\ scn' = [scn EXCEPT !.sem = @ - 1, !.wg = @ - 1, !.task[j.key] = "done"]
  /\ UNCHANGED OtherThanScn

\* wg.Wait() and the return (watcher.go:205-206).
ScanWait ==
  /\ scn.pc = "wait"
  /\ scn.wg = 0
  /\ scn' = [scn EXCEPT !.pc = "returned"]
  /\ UNCHANGED OtherThanScn

(***************************************************************************)
(*                    Claims about the initial scan                        *)
(***************************************************************************)

\* The conversions that have started and not finished.
ScanRunning ==
  {k \in 1..Len(scn.started) : scn.task[scn.started[k].key] # "done"}

\* C37: initialScan starts at most one conversion for each output path, never
\* runs more conversions at once than the worker cap, and returns only after
\* every conversion it started has finished.
C37_OnePerOutputCappedAwaited ==
  /\ \A a, b \in 1..Len(scn.started) :
       scn.started[a].output = scn.started[b].output => a = b
  /\ Cardinality(ScanRunning) <= GoMaxProcs
  /\ scn.pc = "returned" => ScanRunning = {}

\* C37: every source was stale; the scan has returned after three
\* conversions, one for a.pdf.
C37_Witness ==
  /\ scn.pc = "returned"
  /\ scn.stale = ScanSources
  /\ Len(scn.started) = 3
  /\ {scn.started[k].output : k \in 1..3} = {"a.pdf", "b.pdf", "c.pdf"}

(***************************************************************************)
(*              main.go : the walk of processDirectory                     *)
(* The files of the input directory in the lexical order of                *)
(* filepath.WalkDir, each absent or present with a modification time, and  *)
(* the files of the output directory.                                      *)
(***************************************************************************)

BatchEntries == << <<"a", "note">>, <<"a", "pdf">>, <<"a", "pdf", "mark">>, <<"b", "note">> >>

BatchOutputs == {<<"a", "pdf">>, <<"b", "pdf">>}

Present(mtime) == [exists |-> TRUE, mtime |-> mtime]

\* os.Stat returns an error.
NotThere == [exists |-> FALSE, mtime |-> 0]

InputStates == {NotThere, Present(2)}
OutputStates == {NotThere, Present(1), Present(3)}

HasSuffix(path, ext) == Len(path) > 0 /\ path[Len(path)] = ext
TrimSuffix(path) == SubSeq(path, 1, Len(path) - 1)

\* isMarkUpToDate (main.go:252-266).
isMarkUpToDate(mark, companion, out) ==
  /\ out.exists /\ mark.exists /\ companion.exists
  /\ out.mtime >= mark.mtime /\ out.mtime >= companion.mtime

StatIn(inDir, path) == IF path \in DOMAIN inDir THEN inDir[path] ELSE NotThere

\* Faulty variant of NoteOutput: the note's name is kept whole.
NoteOutput_KeepsExt(path) == Append(path, "pdf")

\* strings.TrimSuffix(rel, ".note")+".pdf" (main.go:156).
NoteOutput(path) == Append(TrimSuffix(path), "pdf")

\* The callback of the walk for the i-th entry (main.go:149-178): what it
\* does to the jobs and to the count of skipped files.
WalkEntry(inDir, outDir, acc, i) ==
  LET path == BatchEntries[i]
  IN IF ~inDir[path].exists THEN acc
     ELSE IF HasSuffix(path, "note")
     THEN LET out == NoteOutput(path)
          IN IF isUpToDate(inDir[path], outDir[out])
             THEN [acc EXCEPT !.numSkipped = @ + 1]
             ELSE [acc EXCEPT !.jobs = Append(@, Job(path, out, <<>>))]
     ELSE IF HasSuffix(path, "mark")
     THEN LET companionPDF == TrimSuffix(path)
              out == TrimSuffix(path)
          IN IF ~StatIn(inDir, companionPDF).exists THEN acc
             ELSE IF isMarkUpToDate(inDir[path], inDir[companionPDF], outDir[out])
             THEN [acc EXCEPT !.numSkipped = @ + 1]
             ELSE [acc EXCEPT !.jobs = Append(@, Job(path, out, companionPDF))]
     ELSE acc

RECURSIVE WalkDir(_, _, _)
WalkDir(inDir, outDir, i) ==
  IF i = 0 THEN [jobs |-> <<>>, numSkipped |-> 0]
  ELSE WalkEntry(inDir, outDir, WalkDir(inDir, outDir, i - 1), i)

\* processDirectory after the walk of the directories inDir and outDir, the
\* calls of each job returning as outcomes says.
BatchFrame(inDir, outDir, outcomes) ==
  LET w == WalkDir(inDir, outDir, Len(BatchEntries))
  IN [DirFrame(SubSeq(outcomes, 1, Len(w.jobs)), w.numSkipped) EXCEPT !.walked = w.jobs]

BatchDirs == [{BatchEntries[i] : i \in 1..Len(BatchEntries)} -> InputStates]

(***************************************************************************)
(*                 Claims about the outputs of a batch                     *)
(***************************************************************************)

\* The jobs whose goroutine is in its conversion.
Converting == {k \in 1..Len(dir.jobs) : dir.task[k] = "convert"}

\* C39: no two jobs of processDirectory that run at the same time write the
\* same output path, a note and a mark file of one name included.
C39_NoSharedOutputAtOnce ==
  \A k, l \in Converting : dir.walked[k].output = dir.walked[l].output => k = l

\* C39: the conversions of a.note and of a.pdf.mark are both running, and
\* both write a.pdf.
C39_NoteAndMarkWriteOneFile ==
  /\ {1, 2} \subseteq Converting
  /\ dir.walked[1].input = <<"a", "note">>
  /\ dir.walked[2].input = <<"a", "pdf", "mark">>
  /\ dir.walked[2].companionPDF = <<"a", "pdf">>
  /\ dir.walked[1].output = <<"a", "pdf">>
  /\ dir.walked[2].output = <<"a", "pdf">>

\* C39: every job writes the output the walk gave it, and jobs of different
\* outputs alone are never two on one file: the jobs of a directory without
\* a mark file beside a note of its name have outputs of their own.
C39_NotesAloneApart ==
  (\A k \in 1..Len(dir.walked) : dir.walked[k].companionPDF = <<>>)
    => \A k, l \in 1..Len(dir.walked) : dir.walked[k].output = dir.walked[l].output => k = l

(***************************************************************************)
(*                  Claims about the length of a run                       *)
(***************************************************************************)

\* The runs passed to emit that cover no pixel.
EmptyRuns == {k \in 1..Len(dec.emits) : dec.emits[k].length <= 0}

\* C40: decodeRLE never calls emit with a run length of zero or less, the
\* pair after a flush that has filled the raster included.
C40_EveryRunCoversAPixel == EmptyRuns = {}

\* C40: a held run of another colour was flushed, cut to the pixels left, and
\* the pair that resolved it was passed to emit at the end of the raster with
\* length 0.
C40_EmptyRunAfterFillingFlush ==
  \E k \in EmptyRuns :
    /\ k > 1
    /\ dec.emits[k].length = 0
    /\ dec.emits[k].pos = dec.expected
    /\ dec.emits[k - 1].pos + dec.emits[k - 1].length = dec.expected
    /\ dec.emits[k - 1].length > 0
    /\ dec.emits[k - 1].colorCode # dec.emits[k].colorCode

\* C40: no run has a negative length, and a run of length 0 lies at the end
\* of the raster.
C40_EmptyRunsAtTheEnd ==
  \A k \in EmptyRuns : dec.emits[k].length = 0 /\ dec.emits[k].pos = dec.expected

\* C40: only the second run of a flush is ever empty: an iteration that
\* merges, or reads a pair while none is held, and the tail pass a run of at
\* least one pixel or none.
C40_OnlyFlushPassesEmptyRun ==
  [][~FlushStep =>
       \A k \in (Len(dec.emits) + 1)..Len(dec'.emits) : dec'.emits[k].length >= 1]_vars

(***************************************************************************)
(*                   Claims about pathLocker.Unlock                        *)
(***************************************************************************)

\* Caller k goes from holding its mutex into Unlock.
CallsUnlock(k) == plk.g[k].pc = "held" /\ plk'.g[k].pc # "held"

\* C38: in every interleaving, Unlock unlocks the mutex its caller acquired
\* in the matching Lock, never a mutex that is unlocked and never a mutex
\* another goroutine holds.
C38_UnlocksItsOwnMutex ==
  [][/\ ~plk'.fatal
     /\ \A k \in Goroutines :
          CallsUnlock(k) => plk'.g[k].pc = "release" /\ plk'.g[k].l = plk.g[k].l]_vars

\* C38: a caller of Unlock is about to unlock the mutex that another
\* goroutine acquired and holds for the same path, while the mutex it
\* acquired itself is in use by nobody else and stays locked.
C38_UnlocksAnothersMutex ==
  \E j, k \in Goroutines :
    /\ j # k
    /\ plk.g[k].pc = "release"
    /\ plk.g[j].pc = "held"
    /\ plk.g[j].path = plk.g[k].path
    /\ plk.g[j].l = plk.g[k].l
    /\ plk.pl.locked[plk.g[k].l]
    /\ \E m \in Mutexes :
         /\ m # plk.g[k].l
         /\ plk.pl.locked[m]
         /\ \A p \in Paths : plk.pl.locks[p] # m
         /\ \A i \in Goroutines : plk.g[i].l # m

\* C38: while no Lock of a path overlaps the Unlock of the same path, Unlock
\* finds in the map the mutex its caller holds: a caller past Lock whose
\* mutex is the path's entry unlocks that mutex.
C38_OwnMutexWhileInMap ==
  [][\A k \in Goroutines :
       (CallsUnlock(k) /\ plk.pl.locks[plk.g[k].path] = plk.g[k].l)
         => plk'.g[k].pc = "release" /\ plk'.g[k].l = plk.g[k].l]_vars

(***************************************************************************)
(*                           Specifications                                *)
(* Each specification runs one part of the program from its inputs and     *)
(* holds the frames of the other parts at rest.                            *)
(***************************************************************************)
\* The frames at rest.
RestIdleDec == blk = BlkIdle /\ cv = CvIdle /\ nb = NbIdle /\ pal = PalIdle /\ dir = DirIdle /\ lay = LayIdle /\ plk = LkIdle /\ wat = WatIdle /\ db = DbIdle /\ sd = SdIdle /\ fl = FlIdle /\ idp = IdpIdle /\ mk = MkIdle /\ scn = ScnIdle
RestIdleBlk == dec = DecIdle /\ cv = CvIdle /\ nb = NbIdle /\ pal = PalIdle /\ dir = DirIdle /\ lay = LayIdle /\ plk = LkIdle /\ wat = WatIdle /\ db = DbIdle /\ sd = SdIdle /\ fl = FlIdle /\ idp = IdpIdle /\ mk = MkIdle /\ scn = ScnIdle
RestIdleCv == dec = DecIdle /\ blk = BlkIdle /\ nb = NbIdle /\ pal = PalIdle /\ dir = DirIdle /\ lay = LayIdle /\ plk = LkIdle /\ wat = WatIdle /\ db = DbIdle /\ sd = SdIdle /\ fl = FlIdle /\ idp = IdpIdle /\ mk = MkIdle /\ scn = ScnIdle
RestIdleNb == dec = DecIdle /\ blk = BlkIdle /\ cv = CvIdle /\ pal = PalIdle /\ dir = DirIdle /\ lay = LayIdle /\ plk = LkIdle /\ wat = WatIdle /\ db = DbIdle /\ sd = SdIdle /\ fl = FlIdle /\ idp = IdpIdle /\ mk = MkIdle /\ scn = ScnIdle
RestIdlePal == dec = DecIdle /\ blk = BlkIdle /\ cv = CvIdle /\ nb = NbIdle /\ dir = DirIdle /\ lay = LayIdle /\ plk = LkIdle /\ wat = WatIdle /\ db = DbIdle /\ sd = SdIdle /\ fl = FlIdle /\ idp = IdpIdle /\ mk = MkIdle /\ scn = ScnIdle
RestIdleDir == dec = DecIdle /\ blk = BlkIdle /\ cv = CvIdle /\ nb = NbIdle /\ pal = PalIdle /\ lay = LayIdle /\ plk = LkIdle /\ wat = WatIdle /\ db = DbIdle /\ sd = SdIdle /\ fl = FlIdle /\ idp = IdpIdle /\ mk = MkIdle /\ scn = ScnIdle
RestIdleLay == dec = DecIdle /\ blk = BlkIdle /\ cv = CvIdle /\ nb = NbIdle /\ pal = PalIdle /\ dir = DirIdle /\ plk = LkIdle /\ wat = WatIdle /\ db = DbIdle /\ sd = SdIdle /\ fl = FlIdle /\ idp = IdpIdle /\ mk = MkIdle /\ scn = ScnIdle
RestIdlePlk == dec = DecIdle /\ blk = BlkIdle /\ cv = CvIdle /\ nb = NbIdle /\ pal = PalIdle /\ dir = DirIdle /\ lay = LayIdle /\ wat = WatIdle /\ db = DbIdle /\ sd = SdIdle /\ fl = FlIdle /\ idp = IdpIdle /\ mk = MkIdle /\ scn = ScnIdle
RestIdleWat == dec = DecIdle /\ blk = BlkIdle /\ cv = CvIdle /\ nb = NbIdle /\ pal = PalIdle /\ dir = DirIdle /\ lay = LayIdle /\ plk = LkIdle /\ db = DbIdle /\ sd = SdIdle /\ fl = FlIdle /\ idp = IdpIdle /\ mk = MkIdle /\ scn = ScnIdle
RestIdleDb == dec = DecIdle /\ blk = BlkIdle /\ cv = CvIdle /\ nb = NbIdle /\ pal = PalIdle /\ dir = DirIdle /\ lay = LayIdle /\ plk = LkIdle /\ wat = WatIdle /\ sd = SdIdle /\ fl = FlIdle /\ idp = IdpIdle /\ mk = MkIdle /\ scn = ScnIdle
RestIdleSd == dec = DecIdle /\ blk = BlkIdle /\ cv = CvIdle /\ nb = NbIdle /\ pal = PalIdle /\ dir = DirIdle /\ lay = LayIdle /\ plk = LkIdle /\ wat = WatIdle /\ db = DbIdle /\ fl = FlIdle /\ idp = IdpIdle /\ mk = MkIdle /\ scn = ScnIdle
RestIdleFl == dec = DecIdle /\ blk = BlkIdle /\ cv = CvIdle /\ nb = NbIdle /\ pal = PalIdle /\ dir = DirIdle /\ lay = LayIdle /\ plk = LkIdle /\ wat = WatIdle /\ db = DbIdle /\ sd = SdIdle /\ idp = IdpIdle /\ mk = MkIdle /\ scn = ScnIdle
RestIdleIdp == dec = DecIdle /\ blk = BlkIdle /\ cv = CvIdle /\ nb = NbIdle /\ pal = PalIdle /\ dir = DirIdle /\ lay = LayIdle /\ plk = LkIdle /\ wat = WatIdle /\ db = DbIdle /\ sd = SdIdle /\ fl = FlIdle /\ mk = MkIdle /\ scn = ScnIdle
RestIdleMk == dec = DecIdle /\ blk = BlkIdle /\ cv = CvIdle /\ nb = NbIdle /\ pal = PalIdle /\ dir = DirIdle /\ lay = LayIdle /\ plk = LkIdle /\ wat = WatIdle /\ db = DbIdle /\ sd = SdIdle /\ fl = FlIdle /\ idp = IdpIdle /\ scn = ScnIdle
RestIdleScn == dec = DecIdle /\ blk = BlkIdle /\ cv = CvIdle /\ nb = NbIdle /\ pal = PalIdle /\ dir = DirIdle /\ lay = LayIdle /\ plk = LkIdle /\ wat = WatIdle /\ db = DbIdle /\ sd = SdIdle /\ fl = FlIdle /\ idp = IdpIdle /\ mk = MkIdle

\* decodeRLE over the input streams and raster sizes.
InitRLE ==
  /\ \E data \in RLEStreams :
       \/ \E r \in RecordRasters : dec = DecFrame(data, r[1], r[2], "record")
       \/ \E r \in CodeRasters : dec = DecFrame(data, r[1], r[2], "codes")
  /\ RestIdleDec

NextRLE == DecodeLoop \/ DecodeTail

SpecRLE == InitRLE /\ [][NextRLE]_vars

\* parseMetadataBlock over the blocks.
InitMeta ==
  /\ blk \in {BlkFrame(0, TRUE, <<>>, <<>>, "none"),
              BlkFrame(BlockAddr, FALSE, <<>>, <<>>, "none")}
             \cup {BlkFrame(BlockAddr, TRUE, b, <<>>, "bytes") :
                     b \in BSeq(BlockBytes, MaxBlockLen)}
             \cup {BlkFrame(BlockAddr, TRUE, Serialize(its), its, "records") :
                     its \in {x \in BSeq(BlockItems, MaxRecords) : DistinctKeys(x)}}
  /\ RestIdleBlk

NextMeta == ParseOpen \/ ParseScan \/ ParseReturn

SpecMeta == InitMeta /\ [][NextMeta]_vars

\* ConvertNoteToPDFVector and writeOnePageVectorPDF over the notebooks.
Init ==
  /\ cv \in {CvFrame("note", TRUE, book.pages, book.links, opts) :
               book \in SmallNotebooks, opts \in OptionSets}
            \cup {CvFrame("note", FALSE, <<>>, <<>>, Sequential)}
            \cup {CvFrame("note", TRUE, book.pages, book.links, Sequential) :
                    book \in LongNotebooks}
            \cup {CvFrame("note", TRUE, book.pages, book.links, Sequential) :
                    book \in ToneNotebooks}
            \cup {CvFrame("overlay", TRUE, <<p>>, <<>>, Sequential) :
                    p \in OverlayPages}
  /\ RestIdleCv

Next ==
  \/ ConvStart
  \/ RenderSeq
  \/ Spawn
  \/ \E p \in 1..Len(cv.pages) : TaskRender(p) \/ TaskRelease(p) \/ TaskDone(p)
  \/ Wait
  \/ CheckResults
  \/ AllocChunk
  \/ ResolveChunk
  \/ CreateFile
  \/ WriteHead
  \/ WriteChunk
  \/ WriteTrailer
  \/ OverlayStart
  \/ WriteOnePage

Spec == Init /\ [][Next]_vars

InitNb ==
  /\ nb \in {NbFrame(f) : f \in NoteFiles}
  /\ RestIdleNb

NextNb == NbOpen \/ NbPage \/ NbLinks

SpecNb == InitNb /\ [][NextNb]_vars

InitPal ==
  /\ pal \in {PalFrame(cfg, [num |-> 1, den |-> 5]) : cfg \in ColorConfigs}
              \cup {PalFrame(DefaultColors, o) : o \in MarkerOpacities}
              \cup {PalFrame([DefaultColors EXCEPT !.White = sNotAColor],
                              [num |-> 1, den |-> 5])}
  /\ RestIdlePal

NextPal == PalStart \/ PalSegment \/ PalAliases

SpecPal == InitPal /\ [][NextPal]_vars

InitDir ==
  /\ dir \in {DirFrame(jobs, 0) : jobs \in JobLists} \cup {DirFrame(<<>>, 1)}
  /\ RestIdleDir

NextDir ==
  \/ DirCheck
  \/ DirSpawn
  \/ DirWait
  \/ DirDrain
  \/ \E k \in 1..MaxJobs :
       \/ WorkMkdir(k)
       \/ WorkConvert(k)
       \/ WorkRelease(k)
       \/ WorkDone(k)

\* The Go scheduler runs every goroutine that can take a step: the main
\* goroutine and each job's goroutine are weakly fair.
FairDir ==
  /\ WF_vars(DirMain)
  /\ \A k \in 1..MaxJobs : WF_vars(Worker(k))

SpecDir == InitDir /\ [][NextDir]_vars /\ FairDir

InitLay ==
  /\ lay \in {LayFrame(p, noBg, TRUE) : p \in LayerPages, noBg \in BOOLEAN}
              \cup {LayFrame(p, FALSE, FALSE) : p \in LayerPages}
  /\ RestIdleLay

NextLay ==
  LayStart \/ LayDecode \/ LayMasks \/ LayTrace \/ LayBackground \/ LayContent

SpecLay == InitLay /\ [][NextLay]_vars

\* The callers of one pathLocker, each locking and unlocking paths for ever.
InitLk == /\ plk = LkFrame /\ RestIdlePlk
NextLk == \E k \in Goroutines : PlLock(k) \/ PlAcquire(k) \/ PlUnlock(k) \/ PlRelease(k)
SpecLk == InitLk /\ [][NextLk]_vars

\* The daemon in watch mode: the environment is free; eventLoop, the timer,
\* pollLoop's ticker and every goroutine of a conversion keep running.
InitWat == /\ wat \in {WatFrame(present) : present \in BOOLEAN} /\ RestIdleWat
NextWat == EnvWrite \/ EnvDelete \/ EventLoop \/ PollTick \/ TimerFire \/ \E k \in Conversions : Conversion(k)
FairWat == /\ WF_vars(EventLoop) /\ WF_vars(PollTick) /\ WF_vars(TimerFire) /\ \A k \in Conversions : WF_vars(Conversion(k))
SpecWat == InitWat /\ [][NextWat]_vars /\ FairWat

\* One burst of trigger calls for one path, the timers and their callbacks.
InitDb == /\ db = DbFrame /\ RestIdleDb
NextDb == TriggerCall \/ TriggerSection \/ BurstOver \/ CallbackSection \/ CallbackFire \/ \E t \in Timers : TimerExpire(t)
SpecDb == InitDb /\ [][NextDb]_vars

\* The daemon from "Daemon ready" to its return.
InitSd == /\ sd = SdFrame /\ RestIdleSd
NextSd == SdCancel \/ SdLoopEnd \/ SdWait \/ SdReturn \/ SdPollSelect \/ SdPollWalk \/ \E p \in Sources : SdEvent(p) \/ SdExpire(p) \/ SdAdd(p) \/ SdStart(p) \/ SdFinish(p)
SpecSd == InitSd /\ [][NextSd]_vars

\* decodeRLE over the streams of one or two pairs with a free length code.
InitPairs == /\ dec \in {DecFrame(data, r[1], r[2], "record") : data \in PairStreams, r \in PairRasters} /\ RestIdleDec
SpecPairs == InitPairs /\ [][NextRLE]_vars


\* One call of a fill routine over the buffers, positions and counts.
InitFill ==
  /\ fl \in {FlFrame(r, n, pos, count) : r \in Routines, n \in 0..MaxFillPixels,
                                         pos \in 0..(MaxFillPixels + 1),
                                         count \in 0..MaxFillCount}
  /\ RestIdleFl
NextFill == FillEntry \/ FillLoop
SpecFill == InitFill /\ [][NextFill]_vars
\* A call runs to its end: the routine is sequential code.
SpecFillFair == SpecFill /\ WF_vars(NextFill)
\* The tone masks and tone layers of the pages of content layers.
InitMasks == /\ lay \in {LayFrame(p, FALSE, TRUE) : p \in MaskPages} /\ RestIdleLay
SpecMasks == InitMasks /\ [][NextLay]_vars

\* The identity palette from the package's initialisation on.
InitIdp == /\ idp = IdpFrame /\ RestIdleIdp
NextIdp == IdpBuild \/ IdpCall \/ \E c \in 0..255 : IdpRead(c)
SpecIdp == InitIdp /\ [][NextIdp]_vars

\* One mark conversion over the mark files of up to MaxMarkPages pages.
InitMk == /\ mk \in {MkFrame(ps) : ps \in BSeq(MarkPageKinds, MaxMarkPages)} /\ RestIdleMk
NextMk == MkOpen \/ MkExpand \/ MkRender \/ MkPen \/ MkMarker \/ MkAnnotate
SpecMk == InitMk /\ [][NextMk]_vars

\* initialScan over the sources, any of them stale.
InitScn == /\ scn \in {ScnFrame(stale) : stale \in SUBSET ScanSources} /\ RestIdleScn
NextScn == ScanWalked \/ ScanWait \/ (\E src \in ScanSources : ScanWalk(src)) \/ (\E j \in scn.jobs : ScanSpawn(j) \/ ScanLock(j) \/ ScanConvert(j) \/ ScanRelease(j))
SpecScn == InitScn /\ [][NextScn]_vars

\* processDirectory on every directory of the entries, every job ending well
\* or failing.
InitBatch ==
  /\ dir \in {BatchFrame(inDir, outDir, outcomes) : inDir \in BatchDirs, outDir \in [BatchOutputs -> OutputStates], outcomes \in [1..MaxJobs -> JobOutcomes]}
  /\ RestIdleDir

SpecBatch == InitBatch /\ [][NextDir]_vars
=========================================================================
